---- MODULE Spec2Model ----
(***************************************************************************)
(* Ledger core of the personal-finance API: wallets, categories,           *)
(* transactions and their entries, as stored in the database, and the      *)
(* request handlers of WalletService and TransactionService that read and  *)
(* write them.  Every handler is a sequence of database calls; each call   *)
(* is one atomic step of the model and the calls of concurrent requests    *)
(* interleave freely.  The writes made inside prisma.$transaction are      *)
(* kept in a per-request buffer and reach the stored state in one step at  *)
(* commit, or are dropped when the transaction fails.                      *)
(*                                                                         *)
(* Money is counted in the smallest unit (the schemas allow two decimal    *)
(* places), so amounts and balances are integers.  transactionDate, note,  *)
(* icon and the timestamps are payload no handler branches on; they are    *)
(* left out of the records.                                                *)
(***************************************************************************)
EXTENDS Integers, FiniteSets, Sequences, TLC

\* ------------------------------------------------------------------ bounds
MaxWallets == 2
MaxCalls == 3
MaxAmount == 2
MaxBalance == 1
MaxGoalValue == 2
MaxGoalTarget == 2
MaxGoalCalls == 2
MaxClock == 2
Lifetime == 2
MaxTemplates == 2

Procs == {"p1", "p2"}
Users == {"u1", "u2"}
Names == {"A", "B"}
WalletTypes == {"cash", "credit"}
WalletIds == 1..MaxWallets
TxIds == 1..MaxCalls
Amounts == 1..MaxAmount
Balances == 0..MaxBalance

NoId == 0
NoName == "-"
NoType == "-"
NoFlag == "-"
NoBalance == -1

\* ------------------------------------------------------------------ state
VARIABLES
  wallets,       \* wallet table: id -> row
  categories,    \* category table: id -> row
  transactions,  \* transaction table: set of header rows
  entries,       \* transaction_entries table: set of rows
  pc,            \* per request slot: the next database call of the handler
  call,          \* per request slot: the request being (or last) served
  tx,            \* per request slot: uncommitted writes of prisma.$transaction
  result,        \* per request slot: outcome of the last finished request
  calls,         \* number of requests received so far
  applied,       \* history: balance deltas that reached the wallet table,
                 \*          in the order of the commits
  aborted,       \* history: the transactions that were rolled back
  adjusted,      \* history: wallets whose balance updateWallet has set
  goals,         \* goal table: id -> row
  milestones,    \* milestone table: goal id -> set of rows
  view,          \* per request slot: the goal row a handler has read
  refreshTokens, \* refresh_token table: set of rows
  now,           \* the clock, in seconds
  minted,        \* number of refresh_token rows created so far
  held,          \* history: the refresh tokens handed to clients
  rotations,     \* history: the successful refresh calls, old and new token
  templates,     \* transaction_template table: id -> row
  revoked        \* history: the refresh tokens whose logout has completed

vars == <<wallets, categories, transactions, entries, pc, call, tx, result,
          calls, applied, aborted, adjusted, goals, milestones, view,
          refreshTokens, now, minted, held, rotations, templates, revoked>>

store == <<wallets, categories, transactions, entries>>

history == <<applied, aborted, adjusted>>

goalState == <<goals, milestones, view>>

authState == <<refreshTokens, now, minted, held, rotations, revoked>>

\* What the wallet and transaction handlers never touch.
others == <<goalState, authState, templates>>

\* What the goal and auth handlers never touch.
ledger == <<store, tx, history, templates>>

\* ----------------------------------------------------------------- seeding
\* The category templates, scaled down to one of each type.
CategoryTemplates ==
  (1 :> [type |-> "income", name |-> "A"]) @@
  (2 :> [type |-> "expense", name |-> "B"])

\* Every user owns the categories copied from the templates; scaled down to
\* one income and one expense category for u1 and one income category for u2.
SeedCategories ==
  (1 :> [userId |-> "u1", type |-> "income", name |-> "A",
         parentId |-> NoId]) @@
  (2 :> [userId |-> "u1", type |-> "expense", name |-> "B",
         parentId |-> NoId]) @@
  (3 :> [userId |-> "u2", type |-> "income", name |-> "A",
         parentId |-> NoId])

CategoryIds == {NoId} \cup DOMAIN SeedCategories

NoCall ==
  [op |-> "none", userId |-> "u1", type |-> NoType, walletId |-> NoId,
   toWalletId |-> NoId, categoryId |-> NoId, amount |-> 0, name |-> NoName,
   isArchived |-> NoFlag, balance |-> NoBalance]

NoTx == [header |-> {}, entries |-> {}, updates |-> {}]

\* The seed script creates no goal.
NoGoals == <<>>

NoView == [goal |-> {}, subGoals |-> {}, milestones |-> {}]

\* The wallets the seed script creates for the admin user, scaled down to
\* one; currentBalance starts at openingBalance.
SeedWallets ==
  (1 :> [userId |-> "u1", name |-> "A", type |-> "cash",
         openingBalance |-> 2, currentBalance |-> 2, isArchived |-> FALSE])

Init ==
  /\ wallets = SeedWallets
  /\ categories = SeedCategories
  /\ transactions = {}
  /\ entries = {}
  /\ pc = [p \in Procs |-> "idle"]
  /\ call = [p \in Procs |-> NoCall]
  /\ tx = [p \in Procs |-> NoTx]
  /\ result = [p \in Procs |-> "none"]
  /\ calls = 0
  /\ applied = <<>>
  /\ aborted = {}
  /\ adjusted = {}
  /\ goals = NoGoals
  /\ milestones = NoGoals
  /\ view = [p \in Procs |-> NoView]
  /\ refreshTokens = {}
  /\ now = 0
  /\ minted = 0
  /\ held = {}
  /\ rotations = <<>>
  /\ templates = <<>>
  /\ revoked = {}

\* ------------------------------------------------------------ bookkeeping
\* The handler answers: the slot is free again.
Finish(p, code) ==
  /\ pc' = [pc EXCEPT ![p] = "idle"]
  /\ result' = [result EXCEPT ![p] = code]
  /\ call' = [call EXCEPT ![p] = NoCall]

\* The handler awaits its next database call, or answers with an error.
Continue(p, c, code, label) ==
  IF code # "ok"
    THEN Finish(p, code)
    ELSE /\ pc' = [pc EXCEPT ![p] = label]
         /\ result' = [result EXCEPT ![p] = "pending"]
         /\ call' = [call EXCEPT ![p] = c]

\* A request arrives on an idle slot.
Receive(p) ==
  /\ pc[p] = "idle"
  /\ calls < MaxCalls
  /\ calls' = calls + 1

\* ---------------------------------------------------------- WalletService
\* Variant: the wallet table without the compound unique key.
UniqueNameFree(userId, name, except) == FALSE

\* Wallet(userId, name) carries a compound unique key (the seed script
\* upserts on userId_name), so an insert or rename onto a taken pair fails
\* in the database whether or not the other wallet is archived.
UniqueNameTaken(userId, name, except) ==
  \E w \in DOMAIN wallets \ {except} :
    wallets[w].userId = userId /\ wallets[w].name = name

\* findFirst({ userId, name, isArchived: false [, id: { not: except }] })
ActiveNameExists(userId, name, except) ==
  \E w \in DOMAIN wallets \ {except} :
    /\ wallets[w].userId = userId
    /\ wallets[w].name = name
    /\ ~wallets[w].isArchived

NewWalletId == Cardinality(DOMAIN wallets) + 1

\* createWallet: the name check.
CreateWallet(p, u, n, k, b) ==
  /\ Receive(p)
  /\ Cardinality(DOMAIN wallets) +
       Cardinality({q \in Procs : pc[q] = "cw_create"}) < MaxWallets
  /\ Continue(p, [NoCall EXCEPT !.op = "createWallet", !.userId = u,
                                !.name = n, !.type = k, !.balance = b],
              IF ActiveNameExists(u, n, NoId) THEN "WALLET_NAME_EXISTS"
                                              ELSE "ok",
              "cw_create")
  /\ UNCHANGED <<others, store, tx, history>>

\* createWallet: the insert, currentBalance = openingBalance.
CreateWalletInsert(p) ==
  /\ pc[p] = "cw_create"
  /\ IF UniqueNameTaken(call[p].userId, call[p].name, NoId)
       THEN /\ Finish(p, "UNIQUE_CONSTRAINT_FAILED")
            /\ UNCHANGED wallets
       ELSE /\ wallets' = wallets @@
                 (NewWalletId :> [userId |-> call[p].userId,
                                  name |-> call[p].name,
                                  type |-> call[p].type,
                                  openingBalance |-> call[p].balance,
                                  currentBalance |-> call[p].balance,
                                  isArchived |-> FALSE])
            /\ Finish(p, "ok")
  /\ UNCHANGED <<others, calls, categories, transactions, entries, tx, history>>

\* The bodies updateWalletSchema accepts, one field at a time.
WalletPatches ==
  {[NoCall EXCEPT !.name = n] : n \in Names} \cup
  {[NoCall EXCEPT !.type = k] : k \in WalletTypes} \cup
  {[NoCall EXCEPT !.isArchived = f] : f \in {"true", "false"}} \cup
  {[NoCall EXCEPT !.balance = b] : b \in Balances}

\* prisma.wallet.update({ where: { id }, data }): data is written as given.
PatchWallet(row, data) ==
  [row EXCEPT
     !.name = IF data.name # NoName THEN data.name ELSE @,
     !.type = IF data.type # NoType THEN data.type ELSE @,
     !.isArchived = IF data.isArchived # NoFlag
                      THEN data.isArchived = "true" ELSE @,
     !.currentBalance = IF data.balance # NoBalance THEN data.balance ELSE @]

\* updateWallet: the lookup of the wallet.
UpdateWallet(p, u, w, d) ==
  /\ Receive(p)
  /\ LET found == w \in DOMAIN wallets /\ wallets[w].userId = u IN
       Continue(p, [d EXCEPT !.op = "updateWallet", !.userId = u,
                             !.walletId = w],
                IF found THEN "ok" ELSE "WALLET_NOT_FOUND",
                IF found /\ d.name # NoName /\ d.name # wallets[w].name
                  THEN "uw_name" ELSE "uw_update")
  /\ UNCHANGED <<others, store, tx, history>>

\* updateWallet: the check of the new name.
UpdateWalletNameCheck(p) ==
  /\ pc[p] = "uw_name"
  /\ Continue(p, call[p],
              IF ActiveNameExists(call[p].userId, call[p].name,
                                  call[p].walletId)
                THEN "WALLET_NAME_EXISTS" ELSE "ok",
              "uw_update")
  /\ UNCHANGED <<others, calls, store, tx, history>>

\* updateWallet: the write.
UpdateWalletWrite(p) ==
  /\ pc[p] = "uw_update"
  /\ LET w == call[p].walletId IN
       IF call[p].name # NoName /\
          UniqueNameTaken(call[p].userId, call[p].name, w)
         THEN /\ Finish(p, "UNIQUE_CONSTRAINT_FAILED")
              /\ UNCHANGED <<wallets, adjusted>>
         ELSE /\ wallets' = [wallets EXCEPT ![w] = PatchWallet(@, call[p])]
              /\ adjusted' = IF call[p].balance # NoBalance
                               THEN adjusted \cup {w} ELSE adjusted
              /\ Finish(p, "ok")
  /\ UNCHANGED <<others, calls, categories, transactions, entries, tx, applied,
                 aborted>>

\* include: { entries: { take: 1 } }: no filter on the transaction's
\* deletedAt, so the entries of soft-deleted transactions count.
WalletHasEntries(w) == \E e \in entries : e.walletId = w

\* deleteWallet: the lookup of the wallet with its entries.
DeleteWallet(p, u, w) ==
  /\ Receive(p)
  /\ Continue(p, [NoCall EXCEPT !.op = "deleteWallet", !.userId = u,
                                !.walletId = w],
              IF ~(w \in DOMAIN wallets /\ wallets[w].userId = u)
                THEN "WALLET_NOT_FOUND"
                ELSE IF WalletHasEntries(w) THEN "WALLET_HAS_TRANSACTIONS"
                                            ELSE "ok",
              "dw_update")
  /\ UNCHANGED <<others, store, tx, history>>

\* Variant: the write also removes the entries that reference the wallet.
DeleteWalletWritePurging(p) ==
  /\ pc[p] = "dw_update"
  /\ wallets' = [wallets EXCEPT ![call[p].walletId].isArchived = TRUE]
  /\ entries' = {e \in entries : e.walletId # call[p].walletId}
  /\ Finish(p, "ok")
  /\ UNCHANGED <<others, calls, categories, transactions, tx, history>>

\* deleteWallet: the write, isArchived = true.
DeleteWalletWrite(p) ==
  /\ pc[p] = "dw_update"
  /\ wallets' = [wallets EXCEPT ![call[p].walletId].isArchived = TRUE]
  /\ Finish(p, "ok")
  /\ UNCHANGED <<others, calls, categories, transactions, entries, tx, history>>

WalletNext ==
  \E p \in Procs :
    \/ \E u \in Users, n \in Names, k \in WalletTypes, b \in Balances :
         CreateWallet(p, u, n, k, b)
    \/ CreateWalletInsert(p)
    \/ \E u \in Users, w \in WalletIds, d \in WalletPatches :
         UpdateWallet(p, u, w, d)
    \/ UpdateWalletNameCheck(p)
    \/ UpdateWalletWrite(p)
    \/ \E u \in Users, w \in WalletIds : DeleteWallet(p, u, w)
    \/ DeleteWalletWrite(p)

\* ----------------------------------------------------- TransactionService
\* Variant: the lookup without isArchived: false.
validateWalletOwnershipAnyState(walletId, userId) ==
  IF walletId \in DOMAIN wallets /\ wallets[walletId].userId = userId
    THEN "ok"
    ELSE "TRANSACTION_WALLET_NOT_FOUND"

\* findFirst({ id: walletId, userId, isArchived: false })
validateWalletOwnership(walletId, userId) ==
  IF /\ walletId \in DOMAIN wallets
     /\ wallets[walletId].userId = userId
     /\ ~wallets[walletId].isArchived
    THEN "ok"
    ELSE "TRANSACTION_WALLET_NOT_FOUND"

\* Variant: the lookup by id alone, without userId.
validateCategoryOwnershipAnyOwner(categoryId, userId, transactionType) ==
  IF categoryId \notin DOMAIN categories
    THEN "TRANSACTION_CATEGORY_NOT_FOUND"
    ELSE IF transactionType = "income" /\
            categories[categoryId].type # "income"
           THEN "INVALID_CATEGORY_TYPE_FOR_INCOME"
           ELSE IF transactionType = "expense" /\
                   categories[categoryId].type # "expense"
                  THEN "INVALID_CATEGORY_TYPE_FOR_EXPENSE"
                  ELSE "ok"

\* Variant: the lookup without the comparison of the types.
validateCategoryOwnershipAnyType(categoryId, userId, transactionType) ==
  IF ~(categoryId \in DOMAIN categories /\
       categories[categoryId].userId = userId)
    THEN "TRANSACTION_CATEGORY_NOT_FOUND"
    ELSE "ok"

\* findFirst({ id: categoryId, userId }), then the type of the category.
validateCategoryOwnership(categoryId, userId, transactionType) ==
  IF ~(categoryId \in DOMAIN categories /\
       categories[categoryId].userId = userId)
    THEN "TRANSACTION_CATEGORY_NOT_FOUND"
    ELSE IF transactionType = "income" /\
            categories[categoryId].type # "income"
           THEN "INVALID_CATEGORY_TYPE_FOR_INCOME"
           ELSE IF transactionType = "expense" /\
                   categories[categoryId].type # "expense"
                  THEN "INVALID_CATEGORY_TYPE_FOR_EXPENSE"
                  ELSE "ok"

\* The bodies createTransactionSchema accepts.  walletId holds walletId of
\* an income or expense and fromWalletId of a transfer.
TransactionData ==
  {[NoCall EXCEPT !.type = t, !.walletId = w, !.categoryId = c,
                  !.amount = a] :
     t \in {"income", "expense"}, w \in WalletIds, c \in CategoryIds,
     a \in Amounts} \cup
  {[NoCall EXCEPT !.type = "transfer", !.walletId = w, !.toWalletId = v,
                  !.amount = a] :
     w \in WalletIds, v \in WalletIds, a \in Amounts}

\* Variant: an income or expense looks its category up before its wallet.
FirstValidationCategoryFirst(data, userId) ==
  IF data.type = "transfer" /\ data.walletId = data.toWalletId
    THEN "SAME_WALLET_TRANSFER"
    ELSE IF data.type # "transfer" /\
            validateCategoryOwnership(data.categoryId, userId,
                                      data.type) # "ok"
      THEN validateCategoryOwnership(data.categoryId, userId, data.type)
      ELSE validateWalletOwnership(data.walletId, userId)

\* Variant: the source wallet is looked up before the ids are compared.
FirstValidationLookupFirst(data, userId) ==
  IF validateWalletOwnership(data.walletId, userId) # "ok"
    THEN validateWalletOwnership(data.walletId, userId)
    ELSE IF data.type = "transfer" /\ data.walletId = data.toWalletId
      THEN "SAME_WALLET_TRANSFER"
      ELSE "ok"

\* What a handler does before its first await returns: a transfer compares
\* its two wallet ids, then every type looks its (source) wallet up.
FirstValidation(data, userId) ==
  IF data.type = "transfer" /\ data.walletId = data.toWalletId
    THEN "SAME_WALLET_TRANSFER"
    ELSE validateWalletOwnership(data.walletId, userId)

\* createTransaction: dispatch on the type and the first validation.
CreateTransaction(p, u, d) ==
  /\ Receive(p)
  /\ Continue(p, [d EXCEPT !.op = "createTransaction", !.userId = u],
              FirstValidation(d, u),
              IF d.type = "transfer" THEN "v_to" ELSE "v_category")
  /\ UNCHANGED <<others, store, tx, history>>

\* createTransferTransaction: the lookup of the destination wallet.
ValidateToWallet(p) ==
  /\ pc[p] = "v_to"
  /\ Continue(p, call[p],
              validateWalletOwnership(call[p].toWalletId, call[p].userId),
              "tx_create")
  /\ UNCHANGED <<others, calls, store, tx, history>>

\* createIncomeTransaction, createExpenseTransaction: the category lookup.
ValidateCategory(p) ==
  /\ pc[p] = "v_category"
  /\ Continue(p, call[p],
              validateCategoryOwnership(call[p].categoryId, call[p].userId,
                                        call[p].type),
              "tx_create")
  /\ UNCHANGED <<others, calls, store, tx, history>>

\* Ids are never handed out twice.
UsedTxIds ==
  {t.id : t \in transactions} \cup {a.id : a \in aborted} \cup
  UNION {{t.id : t \in tx[q].header} : q \in Procs}

FreshTxId == CHOOSE i \in TxIds : i \notin UsedTxIds /\
                                  \A j \in 1..(i - 1) : j \in UsedTxIds

\* Variant: a transfer creates the entry on its source wallet only.
NewEntriesSourceOnly(c, id) ==
  {[transactionId |-> id, walletId |-> c.walletId,
    direction |-> IF c.type = "income" THEN "in" ELSE "out",
    amount |-> c.amount]}

\* The nested create of the header: one entry for an income ('in') or an
\* expense ('out'), two for a transfer ('out' of the source, 'in' to the
\* destination), each with the amount of the transaction.
NewEntries(c, id) ==
  IF c.type = "income"
    THEN {[transactionId |-> id, walletId |-> c.walletId,
           direction |-> "in", amount |-> c.amount]}
    ELSE IF c.type = "expense"
      THEN {[transactionId |-> id, walletId |-> c.walletId,
             direction |-> "out", amount |-> c.amount]}
      ELSE {[transactionId |-> id, walletId |-> c.walletId,
             direction |-> "out", amount |-> c.amount],
            [transactionId |-> id, walletId |-> c.toWalletId,
             direction |-> "in", amount |-> c.amount]}

\* Variant: the header and its entries are created outside the database
\* transaction and are stored at once.
TxCreateAutocommit(p) ==
  /\ pc[p] = "tx_create"
  /\ LET id == FreshTxId
         header == {[id |-> id, userId |-> call[p].userId,
                     type |-> call[p].type,
                     categoryId |-> call[p].categoryId,
                     amount |-> call[p].amount, deletedAt |-> FALSE]}
     IN  /\ tx' = [tx EXCEPT ![p] =
                     [header |-> header,
                      entries |-> NewEntries(call[p], id),
                      updates |-> {}]]
         /\ transactions' = transactions \cup header
         /\ entries' = entries \cup NewEntries(call[p], id)
  /\ Continue(p, call[p], "ok", "tx_update")
  /\ UNCHANGED <<others, calls, wallets, categories, history>>

\* tx.transaction.create inside prisma.$transaction.  The insert fails on
\* the category relation when the category is gone by now, and the
\* transaction is rolled back.
TxCreate(p) ==
  /\ pc[p] = "tx_create"
  /\ IF call[p].categoryId # NoId /\ call[p].categoryId \notin DOMAIN categories
       THEN /\ tx' = [tx EXCEPT ![p] = NoTx]
            /\ Finish(p, "FOREIGN_KEY_CONSTRAINT_FAILED")
       ELSE /\ LET id == FreshTxId IN
                 tx' = [tx EXCEPT ![p] =
                          [header |-> {[id |-> id, userId |-> call[p].userId,
                                        type |-> call[p].type,
                                        categoryId |-> call[p].categoryId,
                                        amount |-> call[p].amount,
                                        deletedAt |-> FALSE]},
                           entries |-> NewEntries(call[p], id),
                           updates |-> {}]]
            /\ Continue(p, call[p], "ok", "tx_update")
  /\ UNCHANGED <<others, calls, store, history>>

\* Variant: the new balance is computed from the balance the handler read
\* and written as an absolute value.
FirstUpdateReadThenWrite(c) ==
  [walletId |-> c.walletId,
   op |-> "set",
   value |-> IF c.type = "income"
               THEN wallets[c.walletId].currentBalance + c.amount
               ELSE wallets[c.walletId].currentBalance - c.amount]

\* The first tx.wallet.update: increment for an income, decrement for an
\* expense and for the source of a transfer.
FirstUpdate(c) ==
  [walletId |-> c.walletId,
   op |-> IF c.type = "income" THEN "increment" ELSE "decrement",
   value |-> c.amount]

\* Variant: the balance update is left out.
TxUpdateWalletSkipped(p) ==
  /\ pc[p] = "tx_update"
  /\ Continue(p, call[p], "ok",
              IF call[p].type = "transfer" THEN "tx_update_to"
                                           ELSE "tx_commit")
  /\ UNCHANGED <<others, calls, store, tx, history>>

TxUpdateWallet(p) ==
  /\ pc[p] = "tx_update"
  /\ tx' = [tx EXCEPT ![p].updates = @ \cup {FirstUpdate(call[p])}]
  /\ Continue(p, call[p], "ok",
              IF call[p].type = "transfer" THEN "tx_update_to"
                                           ELSE "tx_commit")
  /\ UNCHANGED <<others, calls, store, history>>

\* Variant: the second update goes to the source wallet again.
SecondUpdateOnSource(c) ==
  [walletId |-> c.walletId, op |-> "increment", value |-> c.amount]

\* Variant: the destination is decremented like the source.
SecondUpdateDecrement(c) ==
  [walletId |-> c.toWalletId, op |-> "decrement", value |-> c.amount]

\* The second tx.wallet.update of a transfer: increment of the destination.
SecondUpdate(c) ==
  [walletId |-> c.toWalletId, op |-> "increment", value |-> c.amount]

TxUpdateToWallet(p) ==
  /\ pc[p] = "tx_update_to"
  /\ tx' = [tx EXCEPT ![p].updates = @ \cup {SecondUpdate(call[p])}]
  /\ Continue(p, call[p], "ok", "tx_commit")
  /\ UNCHANGED <<others, calls, store, history>>

\* Variant: a decrement stops at zero.
ApplyUpdateFloored(balance, u) ==
  IF u.op = "increment" THEN balance + u.value
  ELSE IF u.op = "decrement"
    THEN (IF balance < u.value THEN 0 ELSE balance - u.value)
    ELSE u.value

\* A column update as the database applies it to the row it finds.
ApplyUpdate(balance, u) ==
  IF u.op = "increment" THEN balance + u.value
  ELSE IF u.op = "decrement" THEN balance - u.value
  ELSE u.value

BalanceAfter(w, updates) ==
  IF \E u \in updates : u.walletId = w
    THEN ApplyUpdate(wallets[w].currentBalance,
                     CHOOSE u \in updates : u.walletId = w)
    ELSE wallets[w].currentBalance

\* The callback returned: the header, its entries and the balance updates
\* become visible together.  A relative update is applied to the row as it
\* is when the transaction commits: the row lock the update statement takes
\* makes any other writer of the row wait for the commit.
TxCommit(p) ==
  /\ pc[p] = "tx_commit"
  /\ transactions' = transactions \cup tx[p].header
  /\ entries' = entries \cup tx[p].entries
  /\ wallets' = [w \in DOMAIN wallets |->
                   [wallets[w] EXCEPT
                      !.currentBalance = BalanceAfter(w, tx[p].updates)]]
  /\ applied' = Append(applied,
       [transactionId |-> (CHOOSE t \in tx[p].header : TRUE).id,
        deltas |-> {[walletId |-> u.walletId,
                     delta |-> BalanceAfter(u.walletId, tx[p].updates) -
                               wallets[u.walletId].currentBalance] :
                    u \in tx[p].updates}])
  /\ tx' = [tx EXCEPT ![p] = NoTx]
  /\ Finish(p, "ok")
  /\ UNCHANGED <<others, calls, categories, aborted, adjusted>>

InTransaction(p) ==
  pc[p] \in {"tx_create", "tx_update", "tx_update_to", "tx_commit"}

\* Variant: the failure is caught without a rollback, so the header and the
\* entries written so far stay.
TxAbortPartial(p) ==
  /\ InTransaction(p)
  /\ transactions' = transactions \cup tx[p].header
  /\ entries' = entries \cup tx[p].entries
  /\ tx' = [tx EXCEPT ![p] = NoTx]
  /\ aborted' = aborted \cup
       {[id |-> t.id, updates |-> Cardinality(tx[p].updates)] :
          t \in tx[p].header}
  /\ Finish(p, "TRANSACTION_ROLLED_BACK")
  /\ UNCHANGED <<others, calls, wallets, categories, applied, adjusted>>

\* A statement or the commit failed (connection lost, deadlock, constraint):
\* the callback throws and the database rolls the transaction back.
TxAbort(p) ==
  /\ InTransaction(p)
  /\ tx' = [tx EXCEPT ![p] = NoTx]
  /\ aborted' = aborted \cup
       {[id |-> t.id, updates |-> Cardinality(tx[p].updates)] :
          t \in tx[p].header}
  /\ Finish(p, "TRANSACTION_ROLLED_BACK")
  /\ UNCHANGED <<others, calls, store, applied, adjusted>>

TransactionNext ==
  \E p \in Procs :
    \/ \E u \in Users, d \in TransactionData : CreateTransaction(p, u, d)
    \/ ValidateToWallet(p)
    \/ ValidateCategory(p)
    \/ TxCreate(p)
    \/ TxUpdateWallet(p)
    \/ TxUpdateToWallet(p)
    \/ TxCommit(p)
    \/ TxAbort(p)

Next == WalletNext \/ TransactionNext

Spec == Init /\ [][Next]_vars

\* ------------------------------------------------------------ GoalService
TrackingTypes == {"checkbox", "value", "progress"}
GoalValues == 0..MaxGoalValue
GoalTargets == 0..MaxGoalTarget

\* A nullable targetValue: createGoal and updateGoal store targetValue || null.
NoTarget == 0
NoValue == NoBalance
NoStatus == "-"

\* The milestone rows a goal may have.
MilestoneSets ==
  {{},
   {[id |-> 1, isCompleted |-> FALSE]},
   {[id |-> 1, isCompleted |-> TRUE]},
   {[id |-> 1, isCompleted |-> TRUE], [id |-> 2, isCompleted |-> FALSE]}}

\* A yearly goal of u1 and the monthly goals under it, as createGoal with
\* createMonthlySubGoals lays them out (scaled down from twelve to two).
YearlyGoal(trackingType, targetValue, autoCalculate) ==
  [userId |-> "u1", periodType |-> "yearly", parentGoalId |-> NoId,
   autoCalculate |-> autoCalculate, trackingType |-> trackingType,
   targetValue |-> targetValue, currentValue |-> 0, status |-> "pending"]

MonthlyGoal(parent, trackingType, currentValue) ==
  [userId |-> "u1", periodType |-> "monthly", parentGoalId |-> parent,
   autoCalculate |-> TRUE, trackingType |-> trackingType,
   targetValue |-> MaxGoalValue, currentValue |-> currentValue,
   status |-> IF currentValue > 0 THEN "in_progress" ELSE "pending"]

GoalIds == 1..3

GoalInit ==
  /\ wallets = SeedWallets
  /\ categories = SeedCategories
  /\ transactions = {}
  /\ entries = {}
  /\ pc = [p \in Procs |-> "idle"]
  /\ call = [p \in Procs |-> NoCall]
  /\ tx = [p \in Procs |-> NoTx]
  /\ result = [p \in Procs |-> "none"]
  /\ calls = 0
  /\ applied = <<>>
  /\ aborted = {}
  /\ adjusted = {}
  /\ \E t \in TrackingTypes, g \in GoalTargets,
        v \in GoalValues, w \in GoalValues :
       /\ t = "checkbox" => g = NoTarget
       /\ t # "checkbox" => g # NoTarget
       /\ goals = (1 :> YearlyGoal(t, g, TRUE)) @@
                  (2 :> MonthlyGoal(1, t, v)) @@ (3 :> MonthlyGoal(1, t, w))
  /\ \E m \in MilestoneSets :
       milestones = (1 :> m) @@ (2 :> {}) @@ (3 :> {})
  /\ view = [p \in Procs |-> NoView]
  /\ refreshTokens = {}
  /\ now = 0
  /\ minted = 0
  /\ held = {}
  /\ rotations = <<>>
  /\ templates = <<>>
  /\ revoked = {}

\* include: { subGoals: true }
SubGoals(g) == {c \in DOMAIN goals : goals[c].parentGoalId = g}

\* The bodies updateGoalSchema accepts: a new currentValue, a new
\* currentValue with a new targetValue, or a new status.
GoalPatches ==
  {[currentValue |-> v, targetValue |-> NoValue, status |-> NoStatus] :
     v \in GoalValues} \cup
  {[currentValue |-> MaxGoalValue, targetValue |-> MaxGoalValue,
    status |-> NoStatus]} \cup
  {[currentValue |-> NoValue, targetValue |-> NoValue, status |-> "failed"]}

\* updateData of updateGoal: the fields of the body, then the status the
\* handler derives when the body carries both values.
PatchGoal(row, data, existing) ==
  LET derived ==
        IF data.currentValue # NoValue /\ data.targetValue # NoValue /\
           existing.trackingType # "checkbox"
          THEN IF data.currentValue >= data.targetValue THEN "completed"
               ELSE IF data.currentValue > 0 THEN "in_progress"
               ELSE NoStatus
          ELSE NoStatus
      status == IF derived # NoStatus THEN derived ELSE data.status
  IN  [row EXCEPT
         !.currentValue = IF data.currentValue # NoValue
                            THEN data.currentValue ELSE @,
         !.targetValue = IF data.targetValue # NoValue
                           THEN data.targetValue ELSE @,
         !.status = IF status # NoStatus THEN status ELSE @]

\* updateGoal: the lookup of the goal.
UpdateGoal(p, u, g, d) ==
  /\ Receive(p)
  /\ calls < MaxGoalCalls
  /\ LET found == g \in DOMAIN goals /\ goals[g].userId = u IN
       /\ Continue(p, [op |-> "updateGoal", userId |-> u, goalId |-> g,
                       data |-> d],
                   IF found THEN "ok" ELSE "GOAL_NOT_FOUND", "ug_update")
       /\ view' = [view EXCEPT ![p] =
                     IF found THEN [NoView EXCEPT !.goal = {goals[g]}]
                              ELSE NoView]
  /\ UNCHANGED <<ledger, authState, goals, milestones>>

\* updateGoal: the write; the row it returns carries the sub-goals.  The
\* update of a row that is gone by now fails.
UpdateGoalWrite(p) ==
  /\ pc[p] = "ug_update"
  /\ LET g == call[p].goalId
         existing == CHOOSE r \in view[p].goal : TRUE
     IN  IF g \notin DOMAIN goals
           THEN Finish(p, "RECORD_NOT_FOUND") /\ UNCHANGED goals
           ELSE /\ goals' = [goals EXCEPT
                               ![g] = PatchGoal(@, call[p].data, existing)]
                /\ IF goals'[g].autoCalculate /\ SubGoals(g) # {}
                     THEN Continue(p, call[p], "ok", "rc_read")
                     ELSE Finish(p, "ok")
  /\ view' = [view EXCEPT ![p] = NoView]
  /\ UNCHANGED <<ledger, authState, calls, milestones>>

\* recalculateGoalFromSubGoals: findUnique with subGoals and milestones.
RecalculateRead(p) ==
  /\ pc[p] = "rc_read"
  /\ LET g == call[p].goalId IN
       IF g \notin DOMAIN goals \/ ~goals[g].autoCalculate \/ SubGoals(g) = {}
         THEN Finish(p, "ok") /\ UNCHANGED view
         ELSE /\ Continue(p, call[p], "ok", "rc_update")
              /\ view' = [view EXCEPT ![p] =
                   [goal |-> {goals[g]},
                    subGoals |-> {[id |-> c,
                                   currentValue |-> goals[c].currentValue] :
                                    c \in SubGoals(g)},
                    milestones |-> milestones[g]]]
  /\ UNCHANGED <<ledger, authState, calls, goals, milestones>>

\* Variant: the reduce keeps the value of one sub-goal instead of adding.
SumValuesOverwriting(S) ==
  IF S = {} THEN 0 ELSE (CHOOSE y \in S : TRUE).currentValue

RECURSIVE SumValues(_)
\* subGoals.reduce((sum, sub) => sum + Number(sub.currentValue || 0), 0)
SumValues(S) ==
  IF S = {} THEN 0
  ELSE LET x == CHOOSE y \in S : TRUE IN
         x.currentValue + SumValues(S \ {x})

\* Math.round((n / d) * 100)
RoundPercent(n, d) == (200 * n + d) \div (2 * d)

\* The progress recalculateGoalFromSubGoals computes from what it read.
Progress(v) ==
  LET goal == CHOOSE r \in v.goal : TRUE
      total == SumValues(v.subGoals)
  IN  IF v.milestones # {}
        THEN RoundPercent(
               Cardinality({m \in v.milestones : m.isCompleted}),
               Cardinality(v.milestones))
        ELSE IF goal.trackingType = "value" /\ goal.targetValue # NoTarget
          THEN (IF RoundPercent(total, goal.targetValue) > 100 THEN 100
                ELSE RoundPercent(total, goal.targetValue))
          ELSE 0

\* The status recalculateGoalFromSubGoals writes, NoStatus for none.
DerivedStatus(v) ==
  IF Progress(v) >= 100 THEN "completed"
  ELSE IF SumValues(v.subGoals) > 0 THEN "in_progress"
  ELSE NoStatus

\* recalculateGoalFromSubGoals: the update of currentValue and status.
RecalculateWrite(p) ==
  /\ pc[p] = "rc_update"
  /\ IF call[p].goalId \notin DOMAIN goals
       THEN Finish(p, "RECORD_NOT_FOUND") /\ UNCHANGED goals
       ELSE /\ goals' = [goals EXCEPT
                 ![call[p].goalId] =
                   [@ EXCEPT !.currentValue = SumValues(view[p].subGoals),
                             !.status = IF DerivedStatus(view[p]) # NoStatus
                                          THEN DerivedStatus(view[p]) ELSE @]]
            /\ Finish(p, "ok")
  /\ view' = [view EXCEPT ![p] = NoView]
  /\ UNCHANGED <<ledger, authState, calls, milestones>>

GoalNext ==
  \E p \in Procs :
    \/ \E u \in Users, g \in GoalIds, d \in GoalPatches : UpdateGoal(p, u, g, d)
    \/ UpdateGoalWrite(p)
    \/ RecalculateRead(p)
    \/ RecalculateWrite(p)

GoalSpec == GoalInit /\ [][GoalNext]_vars

\* periodType of createGoalSchema.
PeriodTypes == {"daily", "weekly", "monthly", "yearly"}

\* Ids are uuids: a new goal gets an id that no row and no pending call
\* holds.
HeldGoalIds ==
  {NoId} \cup DOMAIN goals \cup
  {call[p].goalId : p \in {q \in Procs : "goalId" \in DOMAIN call[q]}} \cup
  {call[p].parentGoalId :
     p \in {q \in Procs : "parentGoalId" \in DOMAIN call[q]}}

NewGoalId == (CHOOSE m \in HeldGoalIds : \A g \in HeldGoalIds : g <= m) + 1

\* The bodies createGoalSchema accepts, as far as the hierarchy goes: a goal
\* tracked by value, with or without a parent, with or without the request
\* for monthly sub-goals (monthlyTargetValue and year given), which comes
\* with autoCalculate.
CreateGoalData ==
  {[periodType |-> k, parentGoalId |-> g, createMonthlySubGoals |-> s] :
     k \in PeriodTypes, g \in {NoId} \cup GoalIds, s \in BOOLEAN}

\* The row prisma.goal.create writes for the body.
NewGoal(c) ==
  [userId |-> c.userId, periodType |-> c.periodType,
   parentGoalId |-> c.parentGoalId,
   autoCalculate |-> c.createMonthlySubGoals,
   trackingType |-> "value", targetValue |-> MaxGoalTarget,
   currentValue |-> 0, status |-> "pending"]

\* A row of the createMany of the monthly sub-goals.
NewSubGoal(c) ==
  [userId |-> c.userId, periodType |-> "monthly", parentGoalId |-> c.goalId,
   autoCalculate |-> TRUE, trackingType |-> "value",
   targetValue |-> MaxGoalValue, currentValue |-> 0, status |-> "pending"]

\* The rest of the state, which createGoal and deleteGoal never touch.
beyondGoals == <<ledger, authState, view>>

\* prisma.goal.create: the database refuses a parentGoalId that names no
\* row.  No milestones come with the body.
InsertGoal(p) ==
  IF call[p].parentGoalId # NoId /\ call[p].parentGoalId \notin DOMAIN goals
    THEN Finish(p, "FOREIGN_KEY_CONSTRAINT_FAILED") /\
         UNCHANGED <<goals, milestones>>
    ELSE /\ goals' = goals @@ (NewGoalId :> NewGoal(call[p]))
         /\ milestones' = milestones @@ (NewGoalId :> {})
         /\ IF call[p].periodType = "yearly" /\ call[p].createMonthlySubGoals
              THEN Continue(p, [call[p] EXCEPT !.goalId = NewGoalId], "ok",
                            "cg_sub")
              ELSE Finish(p, "ok")

\* createGoal: findFirst({ id: parentGoalId, userId }) and the check of the
\* two period types.
ParentCheck(u, d) ==
  IF ~(d.parentGoalId \in DOMAIN goals /\ goals[d.parentGoalId].userId = u)
    THEN "GOAL_NOT_FOUND"
    ELSE IF goals[d.parentGoalId].periodType # "yearly" \/
            d.periodType # "monthly"
      THEN "INVALID_PARENT_GOAL_TYPE"
      ELSE "ok"

\* createGoal: with a parentGoalId the lookup of the parent comes first,
\* without one the create.
CreateGoal(p, u, d) ==
  /\ Receive(p)
  /\ LET c == [op |-> "createGoal", userId |-> u, goalId |-> NoId,
               periodType |-> d.periodType, parentGoalId |-> d.parentGoalId,
               createMonthlySubGoals |-> d.createMonthlySubGoals]
     IN  IF d.parentGoalId # NoId
           THEN /\ Continue(p, c, ParentCheck(u, d), "cg_create")
                /\ UNCHANGED <<goals, milestones>>
           ELSE /\ pc[p] = "idle"
                /\ goals' = goals @@ (NewGoalId :> NewGoal(c))
                /\ milestones' = milestones @@ (NewGoalId :> {})
                /\ IF d.periodType = "yearly" /\ d.createMonthlySubGoals
                     THEN Continue(p, [c EXCEPT !.goalId = NewGoalId], "ok",
                                   "cg_sub")
                     ELSE Finish(p, "ok")
  /\ UNCHANGED beyondGoals

\* createGoal: prisma.goal.create after the parent was found.
CreateGoalInsert(p) ==
  /\ pc[p] = "cg_create"
  /\ InsertGoal(p)
  /\ UNCHANGED <<calls, beyondGoals>>

\* createGoal: createMany of the monthly sub-goals (scaled down from twelve
\* to two) under the goal just created; all rows or none.
CreateGoalSubGoals(p) ==
  /\ pc[p] = "cg_sub"
  /\ IF call[p].goalId \notin DOMAIN goals
       THEN /\ Finish(p, "FOREIGN_KEY_CONSTRAINT_FAILED")
            /\ UNCHANGED <<goals, milestones>>
       ELSE LET first == NewGoalId IN
            /\ goals' = goals @@ (first :> NewSubGoal(call[p])) @@
                                  ((first + 1) :> NewSubGoal(call[p]))
            /\ milestones' = milestones @@ (first :> {}) @@
                                            ((first + 1) :> {})
            /\ Finish(p, "ok")
  /\ UNCHANGED <<calls, beyondGoals>>

\* deleteGoal: the lookup of the goal with one of its sub-goals.
DeleteGoal(p, u, g) ==
  /\ Receive(p)
  /\ Continue(p, [op |-> "deleteGoal", userId |-> u, goalId |-> g],
              IF ~(g \in DOMAIN goals /\ goals[g].userId = u)
                THEN "GOAL_NOT_FOUND"
              ELSE IF SubGoals(g) # {} THEN "GOAL_HAS_SUB_GOALS"
              ELSE "ok",
              "dg_milestones")
  /\ UNCHANGED <<goals, milestones, beyondGoals>>

\* deleteGoal: milestone.deleteMany({ goalId }).
DeleteGoalMilestones(p) ==
  /\ pc[p] = "dg_milestones"
  /\ milestones' = [g \in DOMAIN milestones |->
                      IF g = call[p].goalId THEN {} ELSE milestones[g]]
  /\ Continue(p, call[p], "ok", "dg_delete")
  /\ UNCHANGED <<calls, goals, beyondGoals>>

\* deleteGoal: the hard delete.  A row that a sub-goal references by now is
\* kept by the reference, or goes and leaves the reference empty, or goes
\* with its sub-goals, as the relation is declared.
DeleteGoalWrite(p) ==
  /\ pc[p] = "dg_delete"
  /\ LET g == call[p].goalId
         left(gone) == [h \in DOMAIN goals \ gone |->
                          IF goals[h].parentGoalId = g
                            THEN [goals[h] EXCEPT !.parentGoalId = NoId]
                            ELSE goals[h]]
     IN  \/ /\ g \notin DOMAIN goals
            /\ Finish(p, "RECORD_NOT_FOUND")
            /\ UNCHANGED <<goals, milestones>>
         \/ /\ g \in DOMAIN goals
            /\ SubGoals(g) # {}
            /\ Finish(p, "FOREIGN_KEY_CONSTRAINT_FAILED")
            /\ UNCHANGED <<goals, milestones>>
         \/ /\ g \in DOMAIN goals
            /\ goals' = left({g})
            /\ milestones' = [h \in DOMAIN milestones \ {g} |-> milestones[h]]
            /\ Finish(p, "ok")
         \/ /\ g \in DOMAIN goals
            /\ SubGoals(g) # {}
            /\ goals' = left({g} \cup SubGoals(g))
            /\ milestones' = [h \in DOMAIN milestones \ ({g} \cup SubGoals(g)) |->
                               milestones[h]]
            /\ Finish(p, "ok")
  /\ UNCHANGED <<calls, beyondGoals>>

GoalTreeNext ==
  \/ GoalNext
  \/ \E p \in Procs :
       \/ \E u \in Users, d \in CreateGoalData : CreateGoal(p, u, d)
       \/ CreateGoalInsert(p)
       \/ CreateGoalSubGoals(p)
       \/ \E u \in Users, g \in GoalIds : DeleteGoal(p, u, g)
       \/ DeleteGoalMilestones(p)
       \/ DeleteGoalWrite(p)

GoalTreeSpec == Init /\ [][GoalTreeNext]_vars

\* ------------------------------------------------------------ AuthService
Clock == 0..MaxClock

\* jwt.sign(payload, secret, { expiresIn }): the token is a function of the
\* payload (sub, and the role stored with the user), of iat, the second of
\* signing, and of exp = iat + lifetime; two tokens signed for one user in
\* one second are the same string.
signRefreshToken(sub, at) == [sub |-> sub, iat |-> at, exp |-> at + Lifetime]

\* sha256 of the token string: equal tokens, and only they, hash alike.
hashToken(token) == <<"sha256", token.sub, token.iat, token.exp>>

\* jwt.verify: a token is refused from the second of its exp on.
verifyRefreshToken(token) == now < token.exp

\* The seconds pass.
Tick ==
  /\ now < MaxClock
  /\ now' = now + 1
  /\ UNCHANGED <<ledger, goalState, pc, call, result, calls, refreshTokens,
                 minted, held, rotations, revoked>>

NewTokenRow(token, userId) ==
  [id |-> minted + 1, tokenHash |-> hashToken(token), userId |-> userId,
   expiresAt |-> now + Lifetime]

\* login with the credentials of user u: the tokens are signed and the
\* refresh token is stored hashed.  Whether tokenHash carries a unique index
\* is not in the source, so a second row with a stored hash is either
\* refused or inserted.
Login(p, u) ==
  /\ Receive(p)
  /\ LET token == signRefreshToken(u, now) IN
       \/ /\ \E r \in refreshTokens : r.tokenHash = hashToken(token)
          /\ Finish(p, "UNIQUE_CONSTRAINT_FAILED")
          /\ UNCHANGED <<refreshTokens, minted, held>>
       \/ /\ refreshTokens' = refreshTokens \cup {NewTokenRow(token, u)}
          /\ minted' = minted + 1
          /\ held' = held \cup {token}
          /\ Finish(p, "ok")
  /\ UNCHANGED <<ledger, goalState, now, rotations, revoked>>

\* refresh: the token is verified, its row is looked up by hash and user,
\* and the new tokens are signed.
Refresh(p, token) ==
  /\ Receive(p)
  /\ LET rows == {r \in refreshTokens :
                    r.tokenHash = hashToken(token) /\ r.userId = token.sub}
     IN  IF ~verifyRefreshToken(token)
           THEN Finish(p, "TOKEN_EXPIRED")
           ELSE IF rows = {}
             THEN Finish(p, "REFRESH_REVOKED")
             ELSE \E row \in rows :
                    Continue(p, [op |-> "refresh", token |-> token,
                                 rowId |-> row.id,
                                 newToken |->
                                   signRefreshToken(token.sub, now)],
                             IF row.expiresAt < now THEN "REFRESH_EXPIRED"
                                                    ELSE "ok",
                             "rf_rotate")
  /\ UNCHANGED <<ledger, goalState, authState>>

\* refresh: prisma.$transaction([delete the old row, create the new one]).
\* delete throws when the row is gone, and the batch is rolled back.
RefreshRotate(p) ==
  /\ pc[p] = "rf_rotate"
  /\ LET kept == {r \in refreshTokens : r.id # call[p].rowId}
         new == call[p].newToken
     IN  \/ /\ \/ kept = refreshTokens
               \/ \E r \in kept : r.tokenHash = hashToken(new)
            /\ Finish(p, IF kept = refreshTokens
                           THEN "RECORD_NOT_FOUND"
                           ELSE "UNIQUE_CONSTRAINT_FAILED")
            /\ UNCHANGED <<refreshTokens, minted, held, rotations>>
         \/ /\ kept # refreshTokens
            /\ refreshTokens' = kept \cup {NewTokenRow(new, new.sub)}
            /\ minted' = minted + 1
            /\ held' = held \cup {new}
            /\ rotations' = Append(rotations,
                                   [old |-> call[p].token, new |-> new])
            /\ Finish(p, "ok")
  /\ UNCHANGED <<ledger, goalState, calls, now, revoked>>

\* logout: deleteMany by hash; no row is no error.
Logout(p, token) ==
  /\ Receive(p)
  /\ refreshTokens' = {r \in refreshTokens : r.tokenHash # hashToken(token)}
  /\ revoked' = revoked \cup {token}
  /\ Finish(p, "ok")
  /\ UNCHANGED <<ledger, goalState, now, minted, held, rotations>>

AuthNext ==
  \/ Tick
  \/ \E p \in Procs :
       \/ \E u \in Users : Login(p, u)
       \/ \E token \in held : Refresh(p, token)
       \/ RefreshRotate(p)
       \/ \E token \in held : Logout(p, token)

AuthSpec == Init /\ [][AuthNext]_vars

\* The state after a login of u1 at second 0: its refresh token is stored
\* and in the hands of the client.
SessionInit ==
  /\ wallets = SeedWallets
  /\ categories = SeedCategories
  /\ transactions = {}
  /\ entries = {}
  /\ pc = [p \in Procs |-> "idle"]
  /\ call = [p \in Procs |-> NoCall]
  /\ tx = [p \in Procs |-> NoTx]
  /\ result = [p \in Procs |-> "none"]
  /\ calls = 0
  /\ applied = <<>>
  /\ aborted = {}
  /\ adjusted = {}
  /\ goals = NoGoals
  /\ milestones = NoGoals
  /\ view = [p \in Procs |-> NoView]
  /\ now = 0
  /\ refreshTokens =
       {[id |-> 1, tokenHash |-> hashToken(signRefreshToken("u1", 0)),
         userId |-> "u1", expiresAt |-> Lifetime]}
  /\ minted = 1
  /\ held = {signRefreshToken("u1", 0)}
  /\ rotations = <<>>
  /\ templates = <<>>
  /\ revoked = {}

SessionSpec == SessionInit /\ [][AuthNext]_vars

\* -------------------------------------------------------- CategoryService
CategoryTypes == {"income", "expense"}
TemplateIds == {NoId} \cup DOMAIN CategoryTemplates

\* Category(userId, type, name) carries a compound unique key (the seed
\* script upserts on userId_type_name).
CategoryKeyTaken(userId, type, name, except) ==
  \E c \in DOMAIN categories \ {except} :
    /\ categories[c].userId = userId
    /\ categories[c].type = type
    /\ categories[c].name = name

\* Ids are uuids: a new row gets an id that no row, no pending call and no
\* transaction holds.
HeldCategoryIds ==
  {NoId} \cup DOMAIN categories \cup
  {call[p].categoryId :
     p \in {q \in Procs : "categoryId" \in DOMAIN call[q]}} \cup
  {call[p].parentId : p \in {q \in Procs : "parentId" \in DOMAIN call[q]}} \cup
  {t.categoryId : t \in transactions} \cup
  UNION {{t.categoryId : t \in tx[p].header} : p \in Procs}

NewCategoryId ==
  (CHOOSE m \in HeldCategoryIds : \A c \in HeldCategoryIds : c <= m) + 1

\* The rows of the parent/children relation that reference category c.
ChildrenOfCategory(c) ==
  {d \in DOMAIN categories : categories[d].parentId = c}

\* The rest of the state, which no category handler touches.
beyondCategories ==
  <<wallets, transactions, entries, tx, history, goalState, authState,
    templates>>

\* prisma.category.create on a table without the unique key.
InsertCategoryUnkeyed(p, userId, type, name, parentId) ==
  /\ categories' = categories @@
       (NewCategoryId :> [userId |-> userId, type |-> type,
                          name |-> name, parentId |-> parentId])
  /\ Finish(p, "ok")

\* prisma.category.create: the row, or the failure of the unique key or of
\* the reference to the parent.
InsertCategory(p, userId, type, name, parentId) ==
  IF CategoryKeyTaken(userId, type, name, NoId)
    THEN /\ Finish(p, "UNIQUE_CONSTRAINT_FAILED")
         /\ UNCHANGED categories
    ELSE IF parentId # NoId /\ parentId \notin DOMAIN categories
    THEN /\ Finish(p, "FOREIGN_KEY_CONSTRAINT_FAILED")
         /\ UNCHANGED categories
    ELSE /\ categories' = categories @@
              (NewCategoryId :> [userId |-> userId, type |-> type,
                                 name |-> name, parentId |-> parentId])
         /\ Finish(p, "ok")

\* createCategory: the name check.
CreateCategory(p, u, n, t, parent) ==
  /\ Receive(p)
  /\ Continue(p, [op |-> "createCategory", userId |-> u, name |-> n,
                  type |-> t, parentId |-> parent],
              IF CategoryKeyTaken(u, t, n, NoId) THEN "CATEGORY_NAME_EXISTS"
                                                 ELSE "ok",
              IF parent # NoId THEN "cc_parent" ELSE "cc_create")
  /\ UNCHANGED <<categories, beyondCategories>>

\* Variant: the parent is looked up by id alone and its type is not compared.
CreateCategoryParentAnyType(p) ==
  /\ pc[p] = "cc_parent"
  /\ Continue(p, call[p],
              IF call[p].parentId \notin DOMAIN categories
                THEN "PARENT_CATEGORY_NOT_FOUND" ELSE "ok",
              "cc_create")
  /\ UNCHANGED <<calls, categories, beyondCategories>>

\* createCategory: the lookup of the parent and the comparison of the types.
CreateCategoryParent(p) ==
  /\ pc[p] = "cc_parent"
  /\ LET parent == call[p].parentId IN
       Continue(p, call[p],
                IF ~(parent \in DOMAIN categories /\
                     categories[parent].userId = call[p].userId)
                  THEN "PARENT_CATEGORY_NOT_FOUND"
                  ELSE IF categories[parent].type # call[p].type
                    THEN "INVALID_PARENT_TYPE" ELSE "ok",
                "cc_create")
  /\ UNCHANGED <<calls, categories, beyondCategories>>

\* createCategory: the insert.
CreateCategoryInsert(p) ==
  /\ pc[p] = "cc_create"
  /\ InsertCategory(p, call[p].userId, call[p].type, call[p].name,
                    call[p].parentId)
  /\ UNCHANGED <<calls, beyondCategories>>

\* createFromTemplate: the lookup of the template; the name of the new
\* category is customName || template.name.
CreateFromTemplate(p, u, templateId, customName) ==
  /\ Receive(p)
  /\ LET found == templateId \in DOMAIN CategoryTemplates
         template == CategoryTemplates[templateId]
     IN  Continue(p, [op |-> "createFromTemplate", userId |-> u,
                      name |-> IF ~found THEN NoName
                               ELSE IF customName # NoName THEN customName
                               ELSE template.name,
                      type |-> IF found THEN template.type ELSE NoType,
                      parentId |-> NoId],
                  IF found THEN "ok" ELSE "CATEGORY_TEMPLATE_NOT_FOUND",
                  "ct_name")
  /\ UNCHANGED <<categories, beyondCategories>>

\* createFromTemplate: the name check.
CreateFromTemplateNameCheck(p) ==
  /\ pc[p] = "ct_name"
  /\ Continue(p, call[p],
              IF CategoryKeyTaken(call[p].userId, call[p].type,
                                  call[p].name, NoId)
                THEN "CATEGORY_NAME_EXISTS" ELSE "ok",
              "ct_create")
  /\ UNCHANGED <<calls, categories, beyondCategories>>

\* createFromTemplate: the insert.
CreateFromTemplateInsert(p) ==
  /\ pc[p] = "ct_create"
  /\ InsertCategory(p, call[p].userId, call[p].type, call[p].name, NoId)
  /\ UNCHANGED <<calls, beyondCategories>>

\* updateCategory: the lookup of the category; its type is kept for the
\* name check.
UpdateCategory(p, u, c, n) ==
  /\ Receive(p)
  /\ LET found == c \in DOMAIN categories /\ categories[c].userId = u IN
       Continue(p, [op |-> "updateCategory", userId |-> u, categoryId |-> c,
                    name |-> n,
                    type |-> IF found THEN categories[c].type ELSE NoType],
                IF found THEN "ok" ELSE "CATEGORY_NOT_FOUND",
                IF found /\ n # categories[c].name THEN "uc_name"
                                                   ELSE "uc_update")
  /\ UNCHANGED <<categories, beyondCategories>>

\* updateCategory: the check of the new name within the type.
UpdateCategoryNameCheck(p) ==
  /\ pc[p] = "uc_name"
  /\ Continue(p, call[p],
              IF CategoryKeyTaken(call[p].userId, call[p].type, call[p].name,
                                  call[p].categoryId)
                THEN "CATEGORY_NAME_EXISTS" ELSE "ok",
              "uc_update")
  /\ UNCHANGED <<calls, categories, beyondCategories>>

\* updateCategory: the write.
UpdateCategoryWrite(p) ==
  /\ pc[p] = "uc_update"
  /\ LET c == call[p].categoryId IN
       IF c \notin DOMAIN categories
         THEN /\ Finish(p, "RECORD_NOT_FOUND")
              /\ UNCHANGED categories
       ELSE IF CategoryKeyTaken(categories[c].userId, categories[c].type,
                                call[p].name, c)
         THEN /\ Finish(p, "UNIQUE_CONSTRAINT_FAILED")
              /\ UNCHANGED categories
         ELSE /\ categories' = [categories EXCEPT ![c].name = call[p].name]
              /\ Finish(p, "ok")
  /\ UNCHANGED <<calls, beyondCategories>>

\* seedCategoriesFromTemplates: findMany of the templates.
SeedCategoriesFromTemplates(p, u) ==
  /\ Receive(p)
  /\ Continue(p, [op |-> "seedCategoriesFromTemplates", userId |-> u],
              "ok", "sc_create")
  /\ UNCHANGED <<categories, beyondCategories>>

\* seedCategoriesFromTemplates: createMany, one statement: every template
\* becomes a category of the user, or the unique key fails and none does.
SeedCategoriesInsert(p) ==
  /\ pc[p] = "sc_create"
  /\ LET u == call[p].userId
         first == NewCategoryId - 1
     IN  IF \E t \in DOMAIN CategoryTemplates :
              CategoryKeyTaken(u, CategoryTemplates[t].type,
                               CategoryTemplates[t].name, NoId)
           THEN /\ Finish(p, "UNIQUE_CONSTRAINT_FAILED")
                /\ UNCHANGED categories
           ELSE /\ categories' = categories @@
                     [c \in {first + t : t \in DOMAIN CategoryTemplates} |->
                        [userId |-> u,
                         type |-> CategoryTemplates[c - first].type,
                         name |-> CategoryTemplates[c - first].name,
                         parentId |-> NoId]]
                /\ Finish(p, "ok")
  /\ UNCHANGED <<calls, beyondCategories>>

\* deleteCategory: the lookup of the category with one of its children and
\* one of its transactions.
DeleteCategory(p, u, c) ==
  /\ Receive(p)
  /\ Continue(p, [op |-> "deleteCategory", userId |-> u, categoryId |-> c],
              IF ~(c \in DOMAIN categories /\ categories[c].userId = u)
                THEN "CATEGORY_NOT_FOUND"
              ELSE IF \E t \in transactions : t.categoryId = c
                THEN "CATEGORY_HAS_TRANSACTIONS"
              ELSE IF ChildrenOfCategory(c) # {}
                THEN "CATEGORY_HAS_CHILDREN"
              ELSE "ok",
              "dc_delete")
  /\ UNCHANGED <<categories, beyondCategories>>

\* The relation of a transaction to its category: a transaction, committed
\* or written by a transaction still open, holds the category it names, as
\* transactions are immutable once created.
ReferencedByTransaction(c) ==
  \/ \E t \in transactions : t.categoryId = c
  \/ \E q \in Procs : \E t \in tx[q].header : t.categoryId = c

\* deleteCategory: the hard delete.  A row that a child references by now
\* is kept by the reference, or goes and leaves the reference empty, as the
\* relation is declared; a row that a committed transaction references is
\* kept, and the delete waits for an open transaction that references it;
\* the reference of a transaction template is declared onDelete: SetNull.
DeleteCategoryWrite(p) ==
  /\ pc[p] = "dc_delete"
  /\ LET c == call[p].categoryId
     IN  \/ /\ c \notin DOMAIN categories
            /\ Finish(p, "RECORD_NOT_FOUND")
            /\ UNCHANGED <<categories, templates>>
         \/ /\ c \in DOMAIN categories
            /\ \/ ChildrenOfCategory(c) # {}
               \/ \E t \in transactions : t.categoryId = c
            /\ Finish(p, "FOREIGN_KEY_CONSTRAINT_FAILED")
            /\ UNCHANGED <<categories, templates>>
         \/ /\ c \in DOMAIN categories
            /\ ~ReferencedByTransaction(c)
            /\ categories' =
                 [d \in DOMAIN categories \ {c} |->
                    IF categories[d].parentId = c
                      THEN [categories[d] EXCEPT !.parentId = NoId]
                      ELSE categories[d]]
            /\ templates' =
                 [t \in DOMAIN templates |->
                    IF templates[t].categoryId = c
                      THEN [templates[t] EXCEPT !.categoryId = NoId]
                      ELSE templates[t]]
            /\ Finish(p, "ok")
  /\ UNCHANGED <<calls, wallets, transactions, entries, tx, history,
                 goalState, authState>>

CategoryNext ==
  \E p \in Procs :
    \/ \E u \in Users, n \in Names, t \in CategoryTypes,
          c \in CategoryIds \cup DOMAIN categories :
         CreateCategory(p, u, n, t, c)
    \/ CreateCategoryParent(p)
    \/ CreateCategoryInsert(p)
    \/ \E u \in Users, t \in TemplateIds, n \in Names \cup {NoName} :
         CreateFromTemplate(p, u, t, n)
    \/ CreateFromTemplateNameCheck(p)
    \/ CreateFromTemplateInsert(p)
    \/ \E u \in Users, c \in CategoryIds, n \in Names :
         UpdateCategory(p, u, c, n)
    \/ UpdateCategoryNameCheck(p)
    \/ UpdateCategoryWrite(p)
    \/ \E u \in Users : SeedCategoriesFromTemplates(p, u)
    \/ SeedCategoriesInsert(p)
    \/ \E u \in Users, c \in CategoryIds : DeleteCategory(p, u, c)
    \/ DeleteCategoryWrite(p)

CategorySpec == Init /\ [][CategoryNext]_vars

\* --------------------------------------------- TransactionTemplateService
TransactionTypes == {"income", "expense", "transfer"}

\* A field the body of updateTemplate leaves out (undefined, not null).
Undefined == NoBalance

\* The service's own validateWalletOwnership: no walletId passes.
templateValidateWalletOwnership(walletId, userId) ==
  IF walletId = NoId THEN "ok"
  ELSE IF /\ walletId \in DOMAIN wallets
          /\ wallets[walletId].userId = userId
          /\ ~wallets[walletId].isArchived
    THEN "ok"
    ELSE "TEMPLATE_WALLET_NOT_FOUND"

\* The service's own validateCategoryOwnership: no categoryId passes, and
\* so does every categoryId of a transfer.
templateValidateCategoryOwnership(categoryId, userId, transactionType) ==
  IF categoryId = NoId \/ transactionType = "transfer" THEN "ok"
  ELSE IF ~(categoryId \in DOMAIN categories /\
            categories[categoryId].userId = userId)
    THEN "TEMPLATE_CATEGORY_NOT_FOUND"
  ELSE IF categories[categoryId].type # transactionType
    THEN "TEMPLATE_CATEGORY_TYPE_MISMATCH"
  ELSE "ok"

\* findFirst({ where: { userId, name, id: { not } } }) on the templates.
TemplateNameExists(userId, name, except) ==
  \E t \in DOMAIN templates \ {except} :
    templates[t].userId = userId /\ templates[t].name = name

\* Ids are uuids: a new template gets an id no row and no call holds.
HeldTemplateIds ==
  {NoId} \cup DOMAIN templates \cup
  {call[p].templateId :
     p \in {q \in Procs : "templateId" \in DOMAIN call[q]}}

NewTemplateId ==
  (CHOOSE m \in HeldTemplateIds : \A t \in HeldTemplateIds : t <= m) + 1

\* amount is optional: 0 stands for none.
TemplateAmounts == {0, MaxAmount}

NoTemplateCall ==
  [op |-> "none", userId |-> "u1", name |-> NoName, type |-> NoType,
   walletId |-> NoId, categoryId |-> NoId, amount |-> 0,
   templateId |-> NoId, transactionId |-> NoId]

\* The bodies createTemplateSchema accepts: an income or expense names its
\* wallet and its category, a transfer may name a wallet.
TemplateData ==
  {[NoTemplateCall EXCEPT !.name = n, !.type = t, !.walletId = w,
                          !.categoryId = c, !.amount = a] :
     n \in Names, t \in {"income", "expense"}, w \in WalletIds,
     c \in DOMAIN SeedCategories, a \in TemplateAmounts} \cup
  {[NoTemplateCall EXCEPT !.name = n, !.type = "transfer", !.walletId = w,
                          !.amount = a] :
     n \in Names, w \in {NoId} \cup WalletIds, a \in TemplateAmounts}

\* The rest of the state, which no template handler touches.
beyondTemplates == <<store, tx, history, goalState, authState>>

\* Variant: the insert of the template also posts the transaction that the
\* template describes.
InsertTemplatePosting(p) ==
  /\ templates' = templates @@
       (NewTemplateId :> [userId |-> call[p].userId, name |-> call[p].name,
                          type |-> call[p].type,
                          walletId |-> call[p].walletId,
                          categoryId |-> call[p].categoryId,
                          amount |-> call[p].amount])
  /\ transactions' = transactions \cup
       {[id |-> FreshTxId, userId |-> call[p].userId, type |-> call[p].type,
         categoryId |-> call[p].categoryId, amount |-> call[p].amount,
         deletedAt |-> FALSE]}
  /\ Finish(p, "ok")
  /\ UNCHANGED <<calls, wallets, categories, entries, tx, history, goalState,
                 authState>>

\* prisma.transactionTemplate.create.
InsertTemplate(p) ==
  /\ IF call[p].categoryId # NoId /\ call[p].categoryId \notin DOMAIN categories
       THEN /\ Finish(p, "FOREIGN_KEY_CONSTRAINT_FAILED")
            /\ UNCHANGED templates
       ELSE /\ templates' = templates @@
                 (NewTemplateId :>
                    [userId |-> call[p].userId, name |-> call[p].name,
                     type |-> call[p].type, walletId |-> call[p].walletId,
                     categoryId |-> call[p].categoryId,
                     amount |-> call[p].amount])
            /\ Finish(p, "ok")
  /\ UNCHANGED <<calls, beyondTemplates>>

\* createTemplate: the lookup of the wallet.
CreateTemplate(p, u, d) ==
  /\ Receive(p)
  /\ Continue(p, [d EXCEPT !.op = "createTemplate", !.userId = u],
              templateValidateWalletOwnership(d.walletId, u), "tt_category")
  /\ UNCHANGED <<templates, beyondTemplates>>

\* createTemplate: the lookup of the category.
CreateTemplateCategory(p) ==
  /\ pc[p] = "tt_category"
  /\ Continue(p, call[p],
              templateValidateCategoryOwnership(call[p].categoryId,
                                                call[p].userId, call[p].type),
              "tt_name")
  /\ UNCHANGED <<calls, templates, beyondTemplates>>

\* createTemplate: the name check.
CreateTemplateNameCheck(p) ==
  /\ pc[p] = "tt_name"
  /\ Continue(p, call[p],
              IF TemplateNameExists(call[p].userId, call[p].name, NoId)
                THEN "TEMPLATE_NAME_EXISTS" ELSE "ok",
              "tt_create")
  /\ UNCHANGED <<calls, templates, beyondTemplates>>

\* createTemplate: the insert.
CreateTemplateInsert(p) ==
  /\ pc[p] = "tt_create"
  /\ InsertTemplate(p)

\* entries: { take: 1, orderBy: { createdAt: 'asc' } }: the entries of a
\* transaction are created by one nested write and carry one createdAt, so
\* the order among them is the database's choice.
FirstEntryWallets(transactionId) ==
  IF \E e \in entries : e.transactionId = transactionId
    THEN {e.walletId : e \in {f \in entries :
                                f.transactionId = transactionId}}
    ELSE {NoId}

\* createTemplateFromTransaction: the lookup of the transaction with its
\* first entry.
CreateTemplateFromTransaction(p, u, id, n) ==
  /\ Receive(p)
  /\ LET found == {t \in transactions :
                     t.id = id /\ t.userId = u /\ ~t.deletedAt}
     IN  IF found = {}
           THEN Finish(p, "TRANSACTION_NOT_FOUND")
           ELSE \E t \in found, w \in FirstEntryWallets(id) :
                  Continue(p, [NoTemplateCall EXCEPT
                                 !.op = "createTemplateFromTransaction",
                                 !.userId = u, !.name = n, !.type = t.type,
                                 !.walletId = w,
                                 !.categoryId = t.categoryId,
                                 !.amount = t.amount,
                                 !.transactionId = id],
                           "ok", "tf_name")
  /\ UNCHANGED <<templates, beyondTemplates>>

\* createTemplateFromTransaction: the name check.
CreateFromTransactionNameCheck(p) ==
  /\ pc[p] = "tf_name"
  /\ Continue(p, call[p],
              IF TemplateNameExists(call[p].userId, call[p].name, NoId)
                THEN "TEMPLATE_NAME_EXISTS" ELSE "ok",
              "tf_create")
  /\ UNCHANGED <<calls, templates, beyondTemplates>>

\* createTemplateFromTransaction: the insert.
CreateFromTransactionInsert(p) ==
  /\ pc[p] = "tf_create"
  /\ InsertTemplate(p)

\* The bodies updateTemplateSchema accepts, one field at a time; null is
\* NoId for an id and 0 for the amount.
TemplatePatches ==
  LET none == [NoTemplateCall EXCEPT !.walletId = Undefined,
                                     !.categoryId = Undefined,
                                     !.amount = Undefined]
  IN  {[none EXCEPT !.name = n] : n \in Names} \cup
      {[none EXCEPT !.walletId = w] : w \in {NoId} \cup WalletIds} \cup
      {[none EXCEPT !.categoryId = c] : c \in CategoryIds} \cup
      {[none EXCEPT !.amount = a] : a \in TemplateAmounts}

\* updateTemplate: the lookup of the template; its type is kept for the
\* category check.
UpdateTemplate(p, u, t, d) ==
  /\ Receive(p)
  /\ LET found == t \in DOMAIN templates /\ templates[t].userId = u IN
       Continue(p, [d EXCEPT !.op = "updateTemplate", !.userId = u,
                             !.templateId = t,
                             !.type = IF found THEN templates[t].type
                                               ELSE NoType],
                IF found THEN "ok" ELSE "TEMPLATE_NOT_FOUND",
                "tu_wallet")
  /\ UNCHANGED <<templates, beyondTemplates>>

\* updateTemplate: the lookup of the wallet, if the body names one.
UpdateTemplateWallet(p) ==
  /\ pc[p] = "tu_wallet"
  /\ Continue(p, call[p],
              IF call[p].walletId = Undefined THEN "ok"
              ELSE templateValidateWalletOwnership(call[p].walletId,
                                                   call[p].userId),
              "tu_category")
  /\ UNCHANGED <<calls, templates, beyondTemplates>>

\* updateTemplate: the lookup of the category, if the body names one.
UpdateTemplateCategory(p) ==
  /\ pc[p] = "tu_category"
  /\ Continue(p, call[p],
              IF call[p].categoryId = Undefined THEN "ok"
              ELSE templateValidateCategoryOwnership(
                     call[p].categoryId, call[p].userId, call[p].type),
              "tu_name")
  /\ UNCHANGED <<calls, templates, beyondTemplates>>

\* updateTemplate: the check of the new name against the name read at the
\* lookup.
UpdateTemplateNameCheck(p) ==
  /\ pc[p] = "tu_name"
  /\ Continue(p, call[p],
              IF /\ call[p].name # NoName
                 /\ TemplateNameExists(call[p].userId, call[p].name,
                                       call[p].templateId)
                THEN "TEMPLATE_NAME_EXISTS" ELSE "ok",
              "tu_update")
  /\ UNCHANGED <<calls, templates, beyondTemplates>>

\* updateTemplate: the write of the fields the body names.
UpdateTemplateWrite(p) ==
  /\ pc[p] = "tu_update"
  /\ LET t == call[p].templateId
         c == call[p]
     IN  IF t \notin DOMAIN templates
           THEN /\ Finish(p, "RECORD_NOT_FOUND")
                /\ UNCHANGED templates
         ELSE IF c.categoryId \notin {Undefined, NoId} /\
                 c.categoryId \notin DOMAIN categories
           THEN /\ Finish(p, "FOREIGN_KEY_CONSTRAINT_FAILED")
                /\ UNCHANGED templates
         ELSE /\ templates' =
                   [templates EXCEPT ![t] =
                      [@ EXCEPT
                         !.name = IF c.name # NoName THEN c.name ELSE @,
                         !.walletId = IF c.walletId # Undefined
                                        THEN c.walletId ELSE @,
                         !.categoryId = IF c.categoryId # Undefined
                                          THEN c.categoryId ELSE @,
                         !.amount = IF c.amount # Undefined
                                      THEN c.amount ELSE @]]
              /\ Finish(p, "ok")
  /\ UNCHANGED <<calls, beyondTemplates>>

\* deleteTemplate: the lookup of the template.
DeleteTemplate(p, u, t) ==
  /\ Receive(p)
  /\ Continue(p, [NoTemplateCall EXCEPT !.op = "deleteTemplate",
                                        !.userId = u, !.templateId = t],
              IF t \in DOMAIN templates /\ templates[t].userId = u
                THEN "ok" ELSE "TEMPLATE_NOT_FOUND",
              "td_delete")
  /\ UNCHANGED <<templates, beyondTemplates>>

\* deleteTemplate: the hard delete.
DeleteTemplateWrite(p) ==
  /\ pc[p] = "td_delete"
  /\ LET t == call[p].templateId IN
       IF t \notin DOMAIN templates
         THEN /\ Finish(p, "RECORD_NOT_FOUND")
              /\ UNCHANGED templates
         ELSE /\ templates' = [d \in DOMAIN templates \ {t} |-> templates[d]]
              /\ Finish(p, "ok")
  /\ UNCHANGED <<calls, beyondTemplates>>

\* getTemplateForAutofill: one read; the data goes to the caller.
GetTemplateForAutofill(p, u, t) ==
  /\ Receive(p)
  /\ Finish(p, IF t \in DOMAIN templates /\ templates[t].userId = u
                 THEN "autofill" ELSE "null")
  /\ UNCHANGED <<templates, beyondTemplates>>

TransactionTemplateIds == 1..MaxTemplates

TemplateNext ==
  \E p \in Procs :
    \/ \E u \in Users, d \in TemplateData : CreateTemplate(p, u, d)
    \/ CreateTemplateCategory(p)
    \/ CreateTemplateNameCheck(p)
    \/ CreateTemplateInsert(p)
    \/ \E u \in Users, id \in TxIds, n \in Names :
         CreateTemplateFromTransaction(p, u, id, n)
    \/ CreateFromTransactionNameCheck(p)
    \/ CreateFromTransactionInsert(p)
    \/ \E u \in Users, t \in TransactionTemplateIds, d \in TemplatePatches :
         UpdateTemplate(p, u, t, d)
    \/ UpdateTemplateWallet(p)
    \/ UpdateTemplateCategory(p)
    \/ UpdateTemplateNameCheck(p)
    \/ UpdateTemplateWrite(p)
    \/ \E u \in Users, t \in TransactionTemplateIds : DeleteTemplate(p, u, t)
    \/ DeleteTemplateWrite(p)
    \/ \E u \in Users, t \in TransactionTemplateIds :
         GetTemplateForAutofill(p, u, t)

\* The seed script creates several wallets for the admin user; here two,
\* and one transfer between them has been committed.
TemplateInit ==
  /\ wallets =
       (1 :> [userId |-> "u1", name |-> "A", type |-> "cash",
              openingBalance |-> 2, currentBalance |-> 1,
              isArchived |-> FALSE]) @@
       (2 :> [userId |-> "u1", name |-> "B", type |-> "cash",
              openingBalance |-> 0, currentBalance |-> 1,
              isArchived |-> FALSE])
  /\ categories = SeedCategories
  /\ transactions = {[id |-> 1, userId |-> "u1", type |-> "transfer",
                      categoryId |-> NoId, amount |-> 1,
                      deletedAt |-> FALSE]}
  /\ entries = {[transactionId |-> 1, walletId |-> 1, direction |-> "out",
                 amount |-> 1],
                [transactionId |-> 1, walletId |-> 2, direction |-> "in",
                 amount |-> 1]}
  /\ pc = [p \in Procs |-> "idle"]
  /\ call = [p \in Procs |-> NoCall]
  /\ tx = [p \in Procs |-> NoTx]
  /\ result = [p \in Procs |-> "none"]
  /\ calls = 1
  /\ applied = <<[transactionId |-> 1,
                  deltas |-> {[walletId |-> 1, delta |-> -1],
                              [walletId |-> 2, delta |-> 1]}]>>
  /\ aborted = {}
  /\ adjusted = {}
  /\ goals = NoGoals
  /\ milestones = NoGoals
  /\ view = [p \in Procs |-> NoView]
  /\ refreshTokens = {}
  /\ now = 0
  /\ minted = 0
  /\ held = {}
  /\ rotations = <<>>
  /\ templates = <<>>
  /\ revoked = {}

\* The template handlers beside createTransaction.
TemplateSpecNext == TemplateNext \/ TransactionNext

TemplateSpec == TemplateInit /\ [][TemplateSpecNext]_vars

\* Transactions are created while categories are deleted.
CategoryUseNext ==
  \/ TransactionNext
  \/ \E p \in Procs :
       \/ \E u \in Users, c \in CategoryIds : DeleteCategory(p, u, c)
       \/ DeleteCategoryWrite(p)

CategoryUseSpec == TemplateInit /\ [][CategoryUseNext]_vars

\* ------------------------------------------------------------ observation
RECURSIVE SumAmounts(_)
SumAmounts(S) ==
  IF S = {} THEN 0
  ELSE LET e == CHOOSE x \in S : TRUE IN e.amount + SumAmounts(S \ {e})

EntrySum(w, direction) ==
  SumAmounts({e \in entries : e.walletId = w /\ e.direction = direction})

RECURSIVE SumBalances(_, _)
SumBalances(ws, S) ==
  IF S = {} THEN 0
  ELSE LET w == CHOOSE x \in S : TRUE IN
         ws[w].currentBalance + SumBalances(ws, S \ {w})

\* The wallet exists, belongs to the user and is not archived.
Usable(w, u) ==
  /\ w \in DOMAIN wallets
  /\ wallets[w].userId = u
  /\ ~wallets[w].isArchived

\* The deltas the entries of a transaction call for.
Required(E) ==
  {[walletId |-> e.walletId,
    delta |-> IF e.direction = "in" THEN e.amount ELSE 0 - e.amount] :
     e \in E}

\* p's createTransaction commits in this step.
Commits(p) == pc[p] = "tx_commit" /\ result'[p] = "ok"

\* What every step that receives a createTransaction call on p shows: the
\* call is under way or was answered with an error of its first check.
Arrives(p) ==
  /\ pc[p] = "idle"
  /\ calls' # calls
  /\ \/ call'[p].op = "createTransaction"
     \/ result'[p] \in {"SAME_WALLET_TRANSFER", "TRANSACTION_WALLET_NOT_FOUND"}

\* p takes a step of a createTransaction call that is not its commit.
FruitlessStep(p) ==
  /\ result'[p] # "ok"
  /\ \/ call[p].op = "createTransaction" /\ pc'[p] # pc[p]
     \/ /\ Arrives(p)
        /\ \E u \in Users, d \in TransactionData : CreateTransaction(p, u, d)

\* ------------------------------------------------------------------ claims

\* C1: every wallet's currentBalance equals its openingBalance plus the 'in'
\* entries on it minus the 'out' entries on it, in every reachable state.
\* updateWallet writes a currentBalance of the request body into the row,
\* which breaks it.
BalanceInvariant ==
  \A w \in DOMAIN wallets :
    wallets[w].currentBalance =
      wallets[w].openingBalance + EntrySum(w, "in") - EntrySum(w, "out")

\* C2: a createTransaction call that ends in an error has left the store as
\* it was: no step of the call other than its commit changes a wallet, a
\* header or an entry, and when the call ends in an error its uncommitted
\* writes are gone and no header or entry of it is stored.
AtomicOnError ==
  [][\A p \in Procs :
       FruitlessStep(p) =>
         /\ UNCHANGED <<store, applied>>
         /\ pc'[p] = "idle" =>
              /\ tx'[p] = NoTx
              /\ \A t \in tx[p].header :
                   /\ \A h \in transactions' : h.id # t.id
                   /\ \A e \in entries' : e.transactionId # t.id]_vars

\* C2 witness: a transaction was rolled back after its header, its entries
\* and a balance update had been written inside it, and nothing of it shows.
RolledBackLeavesNoTrace ==
  \E a \in aborted :
    /\ a.updates > 0
    /\ \A h \in transactions : h.id # a.id
    /\ \A e \in entries : e.transactionId # a.id
    /\ \A w \in DOMAIN wallets : wallets[w].currentBalance =
                                   wallets[w].openingBalance

\* C3: no posting is lost: the balance of a wallet that only postings have
\* moved is its opening balance plus the signed amounts of all committed
\* entries on it, however the calls that posted them interleaved.
NoLostUpdate ==
  \A w \in DOMAIN wallets \ adjusted :
    wallets[w].currentBalance - wallets[w].openingBalance =
      EntrySum(w, "in") - EntrySum(w, "out")

\* C3 witness: two expenses of the same amount on one wallet ran
\* concurrently (the one that wrote its header first committed last), both
\* committed, and the balance fell by twice the amount.
ConcurrentPostingsCommitted ==
  \E i, j \in DOMAIN applied :
    /\ i < j
    /\ applied[i].transactionId > applied[j].transactionId
    /\ \E w \in DOMAIN wallets \ adjusted, a \in Amounts :
         /\ applied[i].deltas = {[walletId |-> w, delta |-> 0 - a]}
         /\ applied[j].deltas = {[walletId |-> w, delta |-> 0 - a]}
         /\ wallets[w].currentBalance = wallets[w].openingBalance - 2 * a
         /\ \A p \in Procs : pc[p] = "idle"

\* C4: in every stored state a header is there if and only if its entries
\* are there and its balance deltas have been applied: for each transaction
\* id either nothing of it is stored, or the header, the one entry (two for
\* a transfer) and exactly the deltas of those entries.
NoPartialTransaction ==
  \A id \in TxIds :
    LET H == {t \in transactions : t.id = id}
        E == {e \in entries : e.transactionId = id}
        A == {applied[i] : i \in {k \in DOMAIN applied :
                                    applied[k].transactionId = id}}
    IN  IF H = {}
          THEN E = {} /\ A = {}
          ELSE /\ \A t \in H :
                    Cardinality(E) = IF t.type = "transfer" THEN 2 ELSE 1
               /\ Cardinality(A) = 1
               /\ \A a \in A : a.deltas = Required(E)

\* C4 witness: a committed transfer is stored whole while another call holds
\* uncommitted writes that no reader sees.
CommittedBesidePending ==
  /\ \E t \in transactions : t.type = "transfer"
  /\ \E q \in Procs :
       /\ tx[q].updates # {}
       /\ \A t \in tx[q].header : \A h \in transactions : h.id # t.id

\* C5: the commit of a transfer of amount A lowers the source wallet by
\* exactly A, raises the destination by exactly A, and leaves the sum of the
\* two and the sum of all wallet balances as they were.
TransferZeroSum ==
  [][\A p \in Procs :
       Commits(p) /\ call[p].type = "transfer" =>
         LET x == call[p].walletId
             y == call[p].toWalletId
             a == call[p].amount
         IN  /\ wallets'[x].currentBalance = wallets[x].currentBalance - a
             /\ wallets'[y].currentBalance = wallets[y].currentBalance + a
             /\ wallets'[x].currentBalance + wallets'[y].currentBalance =
                  wallets[x].currentBalance + wallets[y].currentBalance
             /\ SumBalances(wallets', DOMAIN wallets') =
                  SumBalances(wallets, DOMAIN wallets)]_vars

\* C5 witness: a transfer has committed, with an 'out' and an 'in' entry on
\* two different wallets and one delta on each.
TransferCommitted ==
  \E i \in DOMAIN applied :
    /\ Cardinality(applied[i].deltas) = 2
    /\ \E e, f \in entries :
         /\ e.transactionId = applied[i].transactionId
         /\ f.transactionId = applied[i].transactionId
         /\ e.direction = "out" /\ f.direction = "in"
         /\ e.walletId # f.walletId

\* C6: a transfer whose fromWalletId equals its toWalletId is answered with
\* SAME_WALLET_TRANSFER in the step that receives it, whether or not the id
\* names a wallet, and nothing stored or pending changes.
SameWalletRejected ==
  [][\A p \in Procs :
       Arrives(p) =>
         \A u \in Users, d \in TransactionData :
           /\ d.type = "transfer"
           /\ d.walletId = d.toWalletId
           /\ CreateTransaction(p, u, d)
           => /\ result'[p] = "SAME_WALLET_TRANSFER"
              /\ pc'[p] = "idle"
              /\ UNCHANGED <<store, tx, applied>>]_vars

\* C6 witness: a same-wallet transfer was rejected while the transaction
\* table is empty and a wallet id of the requests names no wallet.
SameWalletRejectionSeen ==
  /\ \E p \in Procs : result[p] = "SAME_WALLET_TRANSFER"
  /\ WalletIds \ DOMAIN wallets # {}
  /\ transactions = {} /\ entries = {}

\* The category of the request is stored with the other type.
Mismatched(c) ==
  /\ c.type \in {"income", "expense"}
  /\ c.categoryId \in DOMAIN categories
  /\ categories[c.categoryId].type # c.type

MismatchCode(c) ==
  IF c.type = "income" THEN "INVALID_CATEGORY_TYPE_FOR_INCOME"
                       ELSE "INVALID_CATEGORY_TYPE_FOR_EXPENSE"

\* C7 as stated: every income call whose category has type expense ends
\* with INVALID_CATEGORY_TYPE_FOR_INCOME and every expense call whose
\* category has type income with INVALID_CATEGORY_TYPE_FOR_EXPENSE.
MismatchAlwaysReported ==
  [][\A p \in Procs :
       /\ Arrives(p) /\ pc'[p] = "idle" =>
            \A u \in Users, d \in TransactionData :
              Mismatched(d) /\ CreateTransaction(p, u, d)
              => result'[p] = MismatchCode(d)
       /\ /\ call[p].op = "createTransaction"
          /\ Mismatched(call[p])
          /\ pc[p] # "idle" /\ pc'[p] = "idle"
          => result'[p] = MismatchCode(call[p])]_vars

\* C7 as amended: an income or expense call whose wallet has passed the
\* ownership check and whose category belongs to the caller but has the
\* other type ends at the category check with the INVALID_CATEGORY_TYPE
\* error of its type, and nothing stored or pending changes.
MismatchReportedAfterWallet ==
  [][\A p \in Procs :
       /\ pc[p] = "v_category"
       /\ pc'[p] # pc[p]
       /\ Mismatched(call[p])
       /\ categories[call[p].categoryId].userId = call[p].userId
       => /\ result'[p] = MismatchCode(call[p])
          /\ pc'[p] = "idle"
          /\ UNCHANGED <<store, tx, applied>>]_vars

\* C7 witness: both errors have been answered and nothing was written.
BothMismatchesSeen ==
  /\ \E p \in Procs : result[p] = "INVALID_CATEGORY_TYPE_FOR_INCOME"
  /\ \E p \in Procs : result[p] = "INVALID_CATEGORY_TYPE_FOR_EXPENSE"
  /\ transactions = {} /\ entries = {} /\ applied = <<>>

\* The call ends in this step with the wallet-not-found error and nothing
\* stored or pending changes.
RefusedForWallet(p) ==
  /\ result'[p] = "TRANSACTION_WALLET_NOT_FOUND"
  /\ pc'[p] = "idle"
  /\ UNCHANGED <<store, tx, applied>>

\* C8 as stated: a call whose wallet (walletId, fromWalletId) is unusable
\* when it is received, or whose toWalletId is unusable when it is looked
\* up, ends there with TRANSACTION_WALLET_NOT_FOUND and writes nothing.
WalletGateAlways ==
  [][\A p \in Procs :
       /\ Arrives(p) /\ ~RefusedForWallet(p) =>
            \A u \in Users, d \in TransactionData :
              ~(~Usable(d.walletId, u) /\ CreateTransaction(p, u, d))
       /\ /\ pc[p] = "v_to"
          /\ pc'[p] # pc[p]
          /\ ~Usable(call[p].toWalletId, call[p].userId)
          => RefusedForWallet(p)]_vars

\* C8 as amended: the same, except for a transfer whose fromWalletId equals
\* its toWalletId, which is answered with SAME_WALLET_TRANSFER before any
\* wallet is looked up.
WalletGate ==
  [][\A p \in Procs :
       /\ Arrives(p) /\ ~RefusedForWallet(p) =>
            \A u \in Users, d \in TransactionData :
              ~(/\ ~Usable(d.walletId, u)
                /\ ~(d.type = "transfer" /\ d.walletId = d.toWalletId)
                /\ CreateTransaction(p, u, d))
       /\ /\ pc[p] = "v_to"
          /\ pc'[p] # pc[p]
          /\ ~Usable(call[p].toWalletId, call[p].userId)
          => RefusedForWallet(p)]_vars

\* C8 witness: a call was answered with the wallet-not-found error while
\* every wallet is archived, and nothing was written.
ArchivedWalletRefused ==
  /\ \E p \in Procs : result[p] = "TRANSACTION_WALLET_NOT_FOUND"
  /\ \A w \in DOMAIN wallets : wallets[w].isArchived
  /\ transactions = {} /\ entries = {} /\ applied = <<>>

\* C9: deleteWallet answers WALLET_HAS_TRANSACTIONS and leaves the wallet
\* as it is when an entry references it, sets isArchived only on a wallet
\* that no entry references, and never removes a wallet row.
ArchiveGuard ==
  [][\A p \in Procs :
       /\ \A u \in Users, w \in WalletIds :
            /\ pc[p] = "idle" /\ calls' # calls
            /\ w \in DOMAIN wallets /\ wallets[w].userId = u
            /\ WalletHasEntries(w)
            /\ DeleteWallet(p, u, w)
            => result'[p] = "WALLET_HAS_TRANSACTIONS" /\ UNCHANGED wallets
       /\ pc[p] = "dw_update" /\ pc'[p] = "idle"
          => /\ ~WalletHasEntries(call[p].walletId)
             /\ wallets'[call[p].walletId].isArchived
             /\ DOMAIN wallets' = DOMAIN wallets]_vars

\* C10: a createTransaction call never commits while a wallet it posts to is
\* archived: a wallet archived after the validation makes the call fail.
ArchiveRaceAborts ==
  [][\A p \in Procs :
       Commits(p) =>
         \A u \in tx[p].updates : ~wallets[u.walletId].isArchived]_vars

\* The entries stored for transaction id.
EntriesOf(id) == {e \in entries : e.transactionId = id}

\* C11: every stored transaction has exactly the entries of its type: an
\* income one 'in' entry, an expense one 'out' entry, a transfer one 'out'
\* entry and one 'in' entry on two different wallets; every entry carries
\* the amount of its transaction.
EntryShape ==
  \A t \in transactions :
    LET E == EntriesOf(t.id) IN
      /\ \A e \in E : e.amount = t.amount
      /\ t.type = "income" =>
           Cardinality(E) = 1 /\ \A e \in E : e.direction = "in"
      /\ t.type = "expense" =>
           Cardinality(E) = 1 /\ \A e \in E : e.direction = "out"
      /\ t.type = "transfer" =>
           /\ Cardinality(E) = 2
           /\ \E e, f \in E : /\ e.direction = "out" /\ f.direction = "in"
                              /\ e.walletId # f.walletId

\* C11 witness: a transfer and a one-entry transaction are stored together.
TransferAndSingleStored ==
  /\ \E t \in transactions :
       t.type = "transfer" /\ Cardinality(EntriesOf(t.id)) = 2
  /\ \E t \in transactions :
       t.type \in {"income", "expense"} /\ Cardinality(EntriesOf(t.id)) = 1

\* C12: the commit of an income of amount a on wallet A adds exactly one
\* entry, (A, in, a), and moves the balance of A from b to b + a.
IncomeEffect ==
  [][\A p \in Procs :
       Commits(p) /\ call[p].type = "income" =>
         /\ \E id \in TxIds :
              entries' \ entries =
                {[transactionId |-> id, walletId |-> call[p].walletId,
                  direction |-> "in", amount |-> call[p].amount]}
         /\ wallets'[call[p].walletId].currentBalance =
              wallets[call[p].walletId].currentBalance + call[p].amount]_vars

\* C12 witness: an income is stored and its amount has reached the balance
\* of its wallet.
IncomeCommitted ==
  \E t \in transactions :
    /\ t.type = "income"
    /\ \E i \in DOMAIN applied, e \in EntriesOf(t.id) :
         /\ applied[i].transactionId = t.id
         /\ applied[i].deltas = {[walletId |-> e.walletId, delta |-> t.amount]}
         /\ e.walletId \notin adjusted
         /\ wallets[e.walletId].currentBalance >
              wallets[e.walletId].openingBalance

\* C13: the commit of an expense of amount a on wallet A adds exactly one
\* entry, (A, out, a), and moves the balance of A from b to b - a.
ExpenseEffect ==
  [][\A p \in Procs :
       Commits(p) /\ call[p].type = "expense" =>
         /\ \E id \in TxIds :
              entries' \ entries =
                {[transactionId |-> id, walletId |-> call[p].walletId,
                  direction |-> "out", amount |-> call[p].amount]}
         /\ wallets'[call[p].walletId].currentBalance =
              wallets[call[p].walletId].currentBalance - call[p].amount]_vars

\* C13 witness: expenses are stored whose amounts took the balance of their
\* wallet from its opening value to below zero.
ExpenseCommitted ==
  \E t \in transactions :
    /\ t.type = "expense"
    /\ \E i \in DOMAIN applied, e \in EntriesOf(t.id) :
         /\ applied[i].transactionId = t.id
         /\ applied[i].deltas =
              {[walletId |-> e.walletId, delta |-> 0 - t.amount]}
         /\ e.walletId \notin adjusted
         /\ wallets[e.walletId].currentBalance < 0

NonNegativeBalances ==
  \A w \in DOMAIN wallets :
    wallets[w].type # "credit" /\ w \notin adjusted =>
      wallets[w].currentBalance >= 0

\* The sum of the currentValue of the goals in S, as table gs stores them.
RECURSIVE TotalOf(_, _)
TotalOf(gs, S) ==
  IF S = {} THEN 0
  ELSE LET c == CHOOSE x \in S : TRUE IN
         gs[c].currentValue + TotalOf(gs, S \ {c})

\* The sub-goals of g, as table gs stores them.
ChildrenOf(gs, g) == {c \in DOMAIN gs : gs[c].parentGoalId = g}

\* The values p read, as a table.
ReadValues(p) ==
  [c \in {x.id : x \in view[p].subGoals} |->
     CHOOSE x \in view[p].subGoals : x.id = c]

\* p's recalculation writes in this step.
Recalculates(p) == pc[p] = "rc_update" /\ pc'[p] = "idle"

\* C16: a recalculation of a goal with autoCalculate and at least one
\* sub-goal reads the currentValue of every sub-goal and sets the goal's
\* currentValue to their sum; when no sub-goal changed between the read and
\* the write, that is the sum of the stored sub-goal values.
RecalculationSums ==
  [][\A p \in Procs :
       /\ pc[p] = "rc_read" /\ pc'[p] = "rc_update" =>
            /\ DOMAIN ReadValues(p)' = ChildrenOf(goals, call[p].goalId)
            /\ \A c \in DOMAIN ReadValues(p)' :
                 ReadValues(p)'[c].currentValue = goals[c].currentValue
       /\ Recalculates(p) =>
            LET g == call[p].goalId IN
              /\ goals[g].autoCalculate /\ ChildrenOf(goals, g) # {}
              /\ goals'[g].currentValue =
                   TotalOf(ReadValues(p), DOMAIN ReadValues(p))
              /\ (\A c \in ChildrenOf(goals, g) :
                    /\ c \in DOMAIN ReadValues(p)
                    /\ ReadValues(p)[c].currentValue = goals[c].currentValue)
                 => goals'[g].currentValue =
                      TotalOf(goals', ChildrenOf(goals', g))]_vars

\* C16 witness: the yearly goal holds the sum of two different non-zero
\* sub-goal values, a value no request body can carry.
ParentHoldsSum ==
  /\ goals # NoGoals
  /\ \A p \in Procs : pc[p] = "idle"
  /\ goals[1].currentValue = TotalOf(goals, ChildrenOf(goals, 1))
  /\ goals[1].currentValue > MaxGoalValue
  /\ goals[2].currentValue # goals[3].currentValue
  /\ goals[2].currentValue > 0 /\ goals[3].currentValue > 0

\* C17: when an updateGoal call that sets the currentValue of a goal with a
\* parent has completed, the parent with autoCalculate holds the sum of its
\* sub-goals.  updateGoal recalculates the goal it updates, and only if that
\* goal has sub-goals of its own; the parent of the updated goal is left
\* as it was.
ParentFollowsChild ==
  [][\A p \in Procs :
       /\ call[p].op = "updateGoal"
       /\ pc[p] # "idle" /\ pc'[p] = "idle"
       /\ result'[p] = "ok"
       /\ call[p].data.currentValue # NoValue
       /\ goals[call[p].goalId].parentGoalId # NoId
       => LET parent == goals[call[p].goalId].parentGoalId IN
            goals'[parent].autoCalculate =>
              goals'[parent].currentValue =
                TotalOf(goals', ChildrenOf(goals', parent))]_vars

\* The status the derivation rule gives: completed when the ratio (of the
\* completed milestones if the goal has milestones, else of value to
\* target) reaches 100%, in_progress when it is above 0 and below 100%,
\* the status as it was otherwise.
RuleStatus(goal, total, ms, was) ==
  LET done == Cardinality({m \in ms : m.isCompleted})
      part == IF ms # {} THEN done ELSE total
      whole == IF ms # {} THEN Cardinality(ms) ELSE goal.targetValue
  IN  IF whole = NoTarget THEN was
      ELSE IF part >= whole THEN "completed"
      ELSE IF part > 0 THEN "in_progress"
      ELSE was

\* C18: a recalculation sets the status by that rule, for every
\* trackingType, set of milestones and sub-goal values.  The handler takes
\* the value ratio for trackingType value only, and decides in_progress
\* from the summed value, not from the progress.
StatusDerivation ==
  [][\A p \in Procs :
       Recalculates(p) =>
         LET g == call[p].goalId IN
           goals'[g].status =
             RuleStatus(goals[g],
                        TotalOf(ReadValues(p), DOMAIN ReadValues(p)),
                        view[p].milestones, goals[g].status)]_vars

\* C19: a refresh token yields new tokens at most once: no token is the
\* old token of two successful refresh calls.  The new token is signed from
\* the same payload as the old one, so a refresh in the second in which the
\* old token was signed stores the same token again, and it can be
\* refreshed once more.
RotatesOnce ==
  \A i, j \in DOMAIN rotations :
    rotations[i].old = rotations[j].old => i = j

CategoryHierarchy ==
  /\ \A c \in DOMAIN categories :
       categories[c].parentId # NoId =>
         /\ categories[c].parentId \in DOMAIN categories
         /\ categories[categories[c].parentId].userId = categories[c].userId
         /\ categories[categories[c].parentId].type = categories[c].type
  /\ LET RECURSIVE Reaches(_, _, _)
         Reaches(c, d, n) ==
           /\ n > 0
           /\ c \in DOMAIN categories
           /\ categories[c].parentId # NoId
           /\ \/ categories[c].parentId = d
              \/ Reaches(categories[c].parentId, d, n - 1)
     IN  \A c \in DOMAIN categories :
           ~Reaches(c, c, Cardinality(DOMAIN categories))

\* A category sits below a parent that createCategory stored too, and a
\* createCategory call was refused for the type of its parent.
ChildOfCreatedStored ==
  /\ \E c \in DOMAIN categories :
       /\ categories[c].parentId \in DOMAIN categories
       /\ categories[c].parentId \notin DOMAIN SeedCategories
  /\ \E p \in Procs : result[p] = "INVALID_PARENT_TYPE"

\* C22: no two wallets of a user that are not archived share a name, and a
\* createWallet or a rename whose name check finds the name on such a wallet
\* is answered with WALLET_NAME_EXISTS and leaves every wallet as it was.
WalletNamesUnique ==
  /\ [](\A v, w \in DOMAIN wallets :
          /\ wallets[v].userId = wallets[w].userId
          /\ wallets[v].name = wallets[w].name
          /\ ~wallets[v].isArchived
          /\ ~wallets[w].isArchived
          => v = w)
  /\ [][\A p \in Procs :
         /\ pc[p] = "idle" /\ calls' # calls =>
              \A u \in Users, n \in Names :
                ActiveNameExists(u, n, NoId) =>
                  \A k \in WalletTypes, b \in Balances :
                    CreateWallet(p, u, n, k, b) =>
                      result'[p] = "WALLET_NAME_EXISTS" /\ wallets' = wallets
         /\ /\ pc[p] = "uw_name"
            /\ pc'[p] # pc[p]
            /\ ActiveNameExists(call[p].userId, call[p].name,
                                call[p].walletId)
            => result'[p] = "WALLET_NAME_EXISTS" /\ wallets' = wallets]_vars

\* A wallet was archived, a new wallet of the user is stored beside it, and
\* a request for the name of the new wallet was refused.
NameRefusedBesideArchived ==
  /\ \E v, w \in DOMAIN wallets :
       /\ wallets[v].userId = wallets[w].userId
       /\ wallets[v].isArchived
       /\ ~wallets[w].isArchived
  /\ \E p \in Procs : result[p] = "WALLET_NAME_EXISTS"

CategoryErrors ==
  {"TRANSACTION_CATEGORY_NOT_FOUND", "INVALID_CATEGORY_TYPE_FOR_INCOME",
   "INVALID_CATEGORY_TYPE_FOR_EXPENSE"}

\* C23: an income or expense whose wallet is unusable when the call is
\* received ends there with the wallet-not-found error, whatever its
\* category; a category error is answered by the category lookup only,
\* which runs after the wallet lookup has passed; and the destination of a
\* transfer is looked up only after its source was found usable.
ValidationOrder ==
  [][\A p \in Procs :
       /\ Arrives(p) /\ ~RefusedForWallet(p) =>
            \A u \in Users, d \in TransactionData :
              ~(/\ d.type \in {"income", "expense"}
                /\ ~Usable(d.walletId, u)
                /\ CreateTransaction(p, u, d))
       /\ /\ pc[p] = "idle" /\ calls' # calls
          /\ result'[p] \in CategoryErrors
          => \A u \in Users, d \in TransactionData :
               ~CreateTransaction(p, u, d)
       /\ /\ pc[p] # "idle" /\ pc'[p] = "idle"
          /\ result'[p] \in CategoryErrors
          => pc[p] = "v_category"
       /\ pc'[p] \in {"v_category", "v_to"} /\ pc[p] # pc'[p] =>
            /\ pc[p] = "idle"
            /\ Usable(call'[p].walletId, call'[p].userId)]_vars

\* A call was refused for its wallet and another for its category, and
\* nothing was written.
WalletAndCategoryRefused ==
  /\ \E p \in Procs : result[p] = "TRANSACTION_WALLET_NOT_FOUND"
  /\ \E p \in Procs : result[p] \in CategoryErrors
  /\ transactions = {} /\ entries = {} /\ applied = <<>>

\* C24: no step of a transaction-template operation creates a transaction
\* or an entry or changes a wallet: the transaction table, the entry table
\* and the wallets change only in the commit of a createTransaction call.
TemplatesMoveNoMoney ==
  [][transactions' # transactions \/ entries' # entries \/ wallets' # wallets
       => \E p \in Procs :
            /\ pc[p] = "tx_commit"
            /\ pc'[p] = "idle"
            /\ call[p].op = "createTransaction"]_vars

\* A template is stored and its autofill data was handed out, and the
\* ledger is as it was before.
TemplateServedLedgerUntouched ==
  /\ DOMAIN templates # {}
  /\ \E p \in Procs : result[p] = "autofill"
  /\ Cardinality(transactions) = 1
  /\ Cardinality(entries) = 2
  /\ \A w \in DOMAIN wallets : wallets[w].currentBalance = 1

\* The main wallet of a stored transaction: the wallet of its 'out' entry
\* for a transfer, the wallet of its one entry otherwise.
MainWallet(t) ==
  LET es == {e \in entries : e.transactionId = t.id /\
                             (t.type = "transfer" => e.direction = "out")}
  IN  (CHOOSE e \in es : TRUE).walletId

\* C25: the template that createTemplateFromTransaction stores carries the
\* type, the categoryId and the amount of the transaction and the walletId
\* of its main wallet, the source wallet of a transfer.  The handler takes
\* the first entry by createdAt, and the two entries of a transfer are
\* written together, so the destination wallet can come first.
TemplateCopiesTransaction ==
  [][\A p \in Procs :
       pc[p] = "tf_create" /\ templates' # templates =>
         \E t \in transactions :
           /\ t.id = call[p].transactionId
           /\ templates'[NewTemplateId].type = t.type
           /\ templates'[NewTemplateId].categoryId = t.categoryId
           /\ templates'[NewTemplateId].amount = t.amount
           /\ templates'[NewTemplateId].walletId = MainWallet(t)]_vars

\* C26: once logout of a refresh token has completed, every refresh call
\* received with that token (within its lifetime; an expired token is
\* refused before the lookup) is answered with REFRESH_REVOKED and no call
\* with that token issues tokens; logout of a token that is not stored
\* succeeds and changes nothing.  A login in the second in which the token
\* was signed signs and stores the same token again (see C19), and the
\* token refreshes as before its logout.
LogoutRevokes ==
  [][\A p \in Procs :
       /\ pc[p] = "idle" /\ calls' # calls =>
            \A token \in revoked :
              Refresh(p, token) /\ verifyRefreshToken(token)
              => result'[p] = "REFRESH_REVOKED"
       /\ pc[p] = "rf_rotate" /\ call[p].token \in revoked =>
            UNCHANGED <<minted, held, rotations>>
       /\ pc[p] = "idle" /\ calls' # calls =>
            \A token \in held :
              /\ Logout(p, token)
              /\ \A r \in refreshTokens : r.tokenHash # hashToken(token)
              => result'[p] = "ok" /\ refreshTokens' = refreshTokens]_vars

\* C27: no archived wallet is referenced by an entry, and no commit adds
\* an entry to a wallet that is archived at that moment.  updateWallet
\* writes isArchived as given, without the look at the entries that
\* deleteWallet takes, and neither archive is seen by a createTransaction
\* call that has validated its wallets (see C9 and C10).
ArchivedCarryNoEntries ==
  /\ [](\A w \in DOMAIN wallets :
          wallets[w].isArchived => ~WalletHasEntries(w))
  /\ [][\A p \in Procs :
         Commits(p) =>
           \A e \in tx[p].entries : ~wallets[e.walletId].isArchived]_vars

NamedWallets(c) ==
  IF c.type = "transfer" THEN {c.walletId, c.toWalletId} ELSE {c.walletId}

\* C29: the commit of an income or expense changes the balance of the one
\* wallet it names and the commit of a transfer the balances of its two
\* wallets; every other wallet keeps its row (balance, openingBalance, owner,
\* archived flag) and no category changes.
CreateTransactionFrame ==
  [][\A p \in Procs :
       Commits(p) =>
         /\ Cardinality(NamedWallets(call[p])) =
              (IF call[p].type = "transfer" THEN 2 ELSE 1)
         /\ DOMAIN wallets' = DOMAIN wallets
         /\ \A w \in DOMAIN wallets :
              IF w \in NamedWallets(call[p])
                THEN wallets'[w].currentBalance # wallets[w].currentBalance
                ELSE wallets'[w] = wallets[w]
         /\ NamedWallets(call[p]) \subseteq DOMAIN wallets
         /\ categories' = categories]_vars

\* An expense and a transfer were committed beside the seeded transfer: the
\* expense moved one wallet while the other one existed, the transfer two.
ExpenseAndTransferCommitted ==
  /\ Len(applied) = 3
  /\ \E i \in 2..3 :
       /\ Cardinality(applied[i].deltas) = 1
       /\ \A d \in applied[i].deltas : d.delta # 0
       /\ \E w \in DOMAIN wallets :
            \A d \in applied[i].deltas : d.walletId # w
  /\ \E i \in 2..3 :
       /\ Cardinality(applied[i].deltas) = 2
       /\ \A d \in applied[i].deltas : d.delta # 0

\* The shape of the goal tree: a goal with a parent is monthly, its parent
\* exists, belongs to the same user, is yearly and has no parent itself.
GoalHierarchy ==
  \A g \in DOMAIN goals :
    goals[g].parentGoalId # NoId =>
      /\ goals[g].periodType = "monthly"
      /\ goals[g].parentGoalId \in DOMAIN goals
      /\ goals[goals[g].parentGoalId].userId = goals[g].userId
      /\ goals[goals[g].parentGoalId].periodType = "yearly"
      /\ goals[goals[g].parentGoalId].parentGoalId = NoId

\* The parent a createGoal body names is one a monthly goal of u may have.
ParentFits(u, parent, periodType) ==
  /\ parent \in DOMAIN goals
  /\ goals[parent].userId = u
  /\ goals[parent].periodType = "yearly"
  /\ periodType = "monthly"

\* C30: in every reachable state the goal tree has the shape GoalHierarchy;
\* a createGoal call whose parent does not fit ends with GOAL_NOT_FOUND or
\* INVALID_PARENT_GOAL_TYPE and writes no goal, at its lookup and at its
\* create alike; a deleteGoal call on a goal that has sub-goals ends with
\* GOAL_HAS_SUB_GOALS and deletes nothing, at its lookup and at its delete
\* alike.  A sub-goal created between the lookup and the delete of
\* deleteGoal breaks the last part.
GoalTreeGuarded ==
  /\ []GoalHierarchy
  /\ [][\A p \in Procs :
          /\ \A u \in Users, d \in CreateGoalData :
               (/\ pc[p] = "idle"
                /\ calls' # calls
                /\ d.parentGoalId # NoId
                /\ CreateGoal(p, u, d)
                /\ ~ParentFits(u, d.parentGoalId, d.periodType)) =>
                 /\ result'[p] \in {"GOAL_NOT_FOUND",
                                    "INVALID_PARENT_GOAL_TYPE"}
                 /\ goals' = goals
          /\ (/\ pc[p] = "cg_create"
              /\ pc'[p] # "cg_create"
              /\ ~ParentFits(call[p].userId, call[p].parentGoalId,
                             call[p].periodType)) =>
               /\ result'[p] \in {"GOAL_NOT_FOUND",
                                  "INVALID_PARENT_GOAL_TYPE"}
               /\ goals' = goals
          /\ \A u \in Users, g \in GoalIds :
               (/\ pc[p] = "idle"
                /\ calls' # calls
                /\ g \in DOMAIN goals
                /\ goals[g].userId = u
                /\ SubGoals(g) # {}
                /\ DeleteGoal(p, u, g)) =>
                 /\ result'[p] = "GOAL_HAS_SUB_GOALS"
                 /\ goals' = goals
          /\ (/\ pc[p] = "dg_delete"
              /\ pc'[p] = "idle"
              /\ call[p].goalId \in DOMAIN goals
              /\ SubGoals(call[p].goalId) # {}) =>
               /\ result'[p] = "GOAL_HAS_SUB_GOALS"
               /\ goals' = goals]_vars

====
